---- MODULE Spec2Model ----
(***************************************************************************)
(* Rebuild of a Qdrant collection from Postgres rows (apifast):            *)
(* qdrant_create_faq_async, qdrant_create_services_async and               *)
(* qdrant_create_products_async, with reset_collection, batch_iterable,    *)
(* embed_texts, retry_request and the fill_collection_* batch loops.       *)
(*                                                                         *)
(* One rebuild coroutine runs; every external call (Postgres, Qdrant,      *)
(* OpenAI) is one step whose outcome (success or exception) is chosen      *)
(* nondeterministically.                                                   *)
(***************************************************************************)
EXTENDS Integers, Sequences, FiniteSets, TLC

\* ------------------------------------------------------------------ bounds
\* Longest row list a source load returns.
MaxDocs == 3
\* batch_size of fill_collection_* (64 in the source), scaled to the row bound.
BatchSize == 2
\* Largest `retries` a retry wrapper is called with.
MaxRetries == 3
\* Bits of the significand of a floating-point number, and of random.random()
\* (53 in the source's doubles).
FloatBits == 3
\* Most products the searched collection holds.
MaxProducts == 2
\* Most points of the collection a fused query ranks.
MaxRanked == 14
\* Most raw hits handed to the normalizer.
MaxHits == 3
\* Most product rows of the tenant, and the largest max_parallel (10 in the
\* source), scaled to the row bound.
MaxRows == 3
MaxParallel == 2

\* ------------------------------------------------------- program constants
\* retry_request(..., retries=3)
Retries == 3
\* limit=12 of the hybrid query and of its two prefetches
HybridLimit == 12
\* limit=5 of retriever_product_async's query and scroll
SearchLimit == 5

\* -------------------------------------------------------------------- text
\* A text is a sequence of characters. Null is the SQL NULL of a text column
\* (Python None): a value that is no string.
Null == <<"<None>">>
Whitespace == {" ", "\n"}

RECURSIVE LStrip(_)
LStrip(s) ==
    IF s = <<>> THEN s
    ELSE IF Head(s) \in Whitespace THEN LStrip(Tail(s)) ELSE s

RECURSIVE RStrip(_)
RStrip(s) ==
    IF s = <<>> THEN s
    ELSE IF s[Len(s)] \in Whitespace THEN RStrip(SubSeq(s, 1, Len(s) - 1)) ELSE s

\* str.strip()
Strip(s) == RStrip(LStrip(s))

\* t.replace("\n", " ")
ReplaceNewline(s) == [i \in 1..Len(s) |-> IF s[i] = "\n" THEN " " ELSE s[i]]

\* Python truth value of a str or None
Truthy(s) == s # Null /\ s # <<>>

\* A source row: its id and its primary text field (question, services_name
\* or product_search, by kind); the other columns are carried along unread.
\* The rows of the model: two ids, each with either of two non-blank texts
\* (one padded and holding a newline), and rows with an empty, a
\* whitespace-only and a NULL text.
Ids == {1, 2}
NonBlankTexts == { <<"a">>, <<" ", "b", "\n", "c">> }
Records ==
    [id : Ids, text : NonBlankTexts]
      \cup { [id |-> 1, text |-> <<>>],
             [id |-> 2, text |-> <<" ", "\n">>],
             [id |-> 1, text |-> Null] }

RECURSIVE SeqsUpTo(_, _)
SeqsUpTo(S, n) ==
    IF n = 0 THEN { <<>> }
    ELSE LET shorter == SeqsUpTo(S, n - 1)
         IN  shorter \cup { Append(s, x) : s \in {t \in shorter : Len(t) = n - 1}, x \in S }

DocSeqs == SeqsUpTo(Records, MaxDocs)

Min(a, b) == IF a <= b THEN a ELSE b

\* ----------------------------------------------------------------- kinds
Kinds == {"faq", "services", "products"}

\* TEXT_INDEX_FIELDS of qdrant_creat_products; the FAQ and services rebuilds
\* call reset_collection without text_index_fields.
TEXT_INDEX_FIELDS ==
    << "indications_key", "contraindications_key", "body_parts", "product_type" >>

TextIndexFields(kd) == IF kd = "products" THEN TEXT_INDEX_FIELDS ELSE <<>>

\* ------------------------------------------------------------ pure helpers
\* batch_iterable(iterable, size): the slices iterable[i:i+size] for
\* i in range(0, len(iterable), size), in order.
\* Variant: the slices iterable[i:i+size+1].
batch_iterable_overlap(iterable, size) ==
    [b \in 1..((Len(iterable) + size - 1) \div size) |->
        SubSeq(iterable, (b - 1) * size + 1, Min(b * size + 1, Len(iterable)))]

batch_iterable(iterable, size) ==
    [b \in 1..((Len(iterable) + size - 1) \div size) |->
        SubSeq(iterable, (b - 1) * size + 1, Min(b * size, Len(iterable)))]

\* Variants: the condition negated; the condition without .strip().
KeepsInverted(d) == Strip(d.text) = <<>>
KeepsUnstripped(d) == d.text # <<>>

\* d.get(<primary text>, "").strip() of the fill_collection_* filter; the
\* caller has excluded None, on which .strip() raises AttributeError.
IndexerKeeps(d) == Strip(d.text) # <<>>

\* Variant: no filter.
FilterBatchKeepsAll(batch) == batch

\* filtered = [d for d in batch if d.get(<primary text>, "").strip()]
FilterBatch(batch) == SelectSeq(batch, IndexerKeeps)

\* The comprehension raises on the first record whose text is None.
FilterRaises(batch) == \E i \in 1..Len(batch) : batch[i].text = Null

\* Variant: `if t`, without t.strip().
EmbedKeepsTruthy(t) == Truthy(t)

\* embed_texts: t and t.strip()
EmbedKeeps(t) == Truthy(t) /\ Strip(t) # <<>>

\* texts = [t.replace("\n", " ") for t in texts if t and t.strip()]
EmbedInput(texts) ==
    LET kept == SelectSeq(texts, EmbedKeeps)
    IN  [i \in 1..Len(kept) |-> ReplaceNewline(kept[i])]

\* The provider returns one embedding per input, in input order; a dense
\* vector is modelled by the input it was computed from.
DenseVector(t) == << "ada", t >>
\* bm25_embedding_model.passage_embed(texts): one sparse vector per text.
SparseVector(t) == << "bm25", t >>
passage_embed(texts) == [i \in 1..Len(texts) |-> SparseVector(texts[i])]

\* Variant: the last failure is logged and not re-raised.
RetrySwallows(att, ok) ==
    IF ok THEN "return" ELSE IF att = Retries THEN "return" ELSE "retry"

\* Variant: `if attempt > retries`, one attempt more.
RetryDecisionExtra(att, n, ok) ==
    IF ok THEN "return" ELSE IF att = n + 1 THEN "raise" ELSE "retry"

\* The body of `for attempt in range(1, retries + 1)` of retry_request and of
\* retry_async's wrapper, after the call of attempt att of n: return the
\* value, or `if attempt == retries: raise`, or sleep and go round.
RetryDecision(att, n, ok) ==
    IF ok THEN "return" ELSE IF att = n THEN "raise" ELSE "retry"

\* Variant: one attempt more before the re-raise.
RetryStepOneMore(att, ok) == RetryDecision(att, Retries + 1, ok)

\* retry_request's decision after an attempt: return the value, sleep and
\* retry, or re-raise on the last attempt.
RetryStep(att, ok) == RetryDecision(att, Retries, ok)

\* ------------------------------------------------------------ retry timing
\* The waits are floating-point numbers. A number is held as a count of
\* units of 2^-FloatBits; a float has FloatBits significant bits and every
\* arithmetic result is rounded to the nearest float, ties to even.
RECURSIVE Pow(_, _)
Pow(b, k) == IF k = 0 THEN 1 ELSE b * Pow(b, k - 1)

Unit == Pow(2, FloatBits)

RECURSIVE Log2(_)
Log2(x) == IF x <= 1 THEN 0 ELSE 1 + Log2(x \div 2)

\* Distance between neighbouring floats at x.
Ulp(x) ==
    LET e == Log2(x)
    IN  IF e - FloatBits + 1 > 0 THEN Pow(2, e - FloatBits + 1) ELSE 1

FRound(x) ==
    LET u == Ulp(x)
        q == x \div u
        r == x % u
    IN  IF 2 * r < u THEN q * u
        ELSE IF 2 * r > u THEN (q + 1) * u
        ELSE IF q % 2 = 0 THEN q * u ELSE (q + 1) * u

\* random.random(): k * 2^-FloatBits for 0 <= k < 2^FloatBits.
Randoms == 0..(Unit - 1)

\* random.uniform(a, b) is a + (b - a) * random(); a and b are whole numbers.
Uniform(a, b, rnd) == FRound(a * Unit + FRound((b - a) * rnd))

\* Variant: backoff * attempt.
WaitLinear(b, att, j, rnd) == FRound(FRound(b * att * Unit) + Uniform(0, j, rnd))

\* wait = backoff ** attempt + random.uniform(0, jitter)
Wait(b, att, j, rnd) == FRound(FRound(Pow(b, att) * Unit) + Uniform(0, j, rnd))

\* The wrappers and the arguments they are called with: retry_request draws
\* its jitter from uniform(0, 1), retry_async from uniform(0, jitter).
Wrappers == {"retry_request", "retry_async"}
Backoffs == {1, 2}
Jitters(w) == IF w = "retry_async" THEN {0, 1, 2} ELSE {1}

\* What a call of the wrapped function does: return a value, raise an
\* exception the wrapper catches, or raise one it does not catch (not in
\* `exceptions`, or no Exception at all, such as a cancellation).
CallOutcomes == {"ok", "fail", "escape"}


\* Variant: no check of the load.
EmptyLoadNever(d) == FALSE

\* `if not docs: return False` of qdrant_create_*_async
EmptyLoad(d) == d = <<>>

\* Variant: no skip.
SkipBatchNever(flt) == FALSE

\* `if not filtered: continue` of fill_collection_*
SkipBatch(flt) == flt = <<>>

\* Variant: return True.
RebuildResultAlways(res) == "true"

\* return bool(results)
RebuildResult(res) == IF res # {} THEN "true" ELSE "false"

\* Variant: fill_collection_* called before reset_collection.
NextStageFillFirst(stage) ==
    CASE stage = "load"  -> "fill"
      [] stage = "fill"  -> "reset"
      [] stage = "reset" -> "check"
      [] stage = "check" -> "return"

\* The statement order of qdrant_create_*_async: load, reset_collection,
\* fill_collection_*, the test query, return.
NextStage(stage) ==
    CASE stage = "load"  -> "reset"
      [] stage = "reset" -> "fill"
      [] stage = "fill"  -> "check"
      [] stage = "check" -> "return"

\* First control point of a stage. The FAQ and services rebuilds test with
\* retriver_hybrid_async, the products rebuild with
\* retriever_product_hybrid_async.
StageEntry(stage, kd) ==
    CASE stage = "reset"  -> "delete"
      [] stage = "fill"   -> "batch"
      [] stage = "check"  -> IF kd = "products" THEN "check_embed" ELSE "selfcheck"
      [] stage = "return" -> "return"

\* ------------------------------------------------------------------ points
\* models.PointStruct(id=int(d["id"]), vector={...}, payload=d). The field
\* run tells the points this rebuild wrote (1) from those the collection
\* held before it (0).
Point(d, dense, sparse) ==
    [id |-> d.id, vector |-> [ada |-> dense, bm25 |-> sparse], payload |-> d, run |-> 1]

\* ada_emb[i] or bm25_emb[i] past the end of the list raises IndexError.
BuildRaises(flt, ada, bm25) == Len(ada) < Len(flt) \/ Len(bm25) < Len(flt)

BuildPoints(flt, ada, bm25) ==
    [i \in 1..Len(flt) |-> Point(flt[i], ada[i], bm25[i])]

\* ------------------------------------------------------------ vector store
\* Upsert of a list of points: a point replaces the stored point of the same
\* id, and of two points of the list with one id the later one stays.
UpsertPoints(coll, pts) ==
    { q \in coll : \A i \in 1..Len(pts) : pts[i].id # q.id }
      \cup { pts[i] : i \in { j \in 1..Len(pts) :
                               \A l \in (j + 1)..Len(pts) : pts[l].id # pts[j].id } }

\* The hit lists a query with the given limit may return: any at most
\* `limit` of the stored points (the ranking and the filter are the store's).
QueryHits(coll, limit) ==
    { h \in SUBSET { q.id : q \in coll } : Cardinality(h) <= limit }

\* Points left in the collection by an earlier rebuild.
OldPoint(i) ==
    [id |-> i, vector |-> [ada |-> << "ada", <<"o">> >>, bm25 |-> << "bm25", <<"o">> >>],
     payload |-> [id |-> i, text |-> <<"o">>], run |-> 0]
OldPoints == { OldPoint(1), OldPoint(3) }

StoreOps == {"delete", "create", "index", "upsert", "query"}

\* ------------------------------------------------------------------- state
VARIABLES
    kind,        \* which rebuild runs
    pc,          \* control point of the rebuild coroutine
    docs,        \* rows returned by the source load
    bidx,        \* number of the batch the fill loop is at
    filtered,    \* filtered records of the current batch
    bm25_emb,    \* sparse vectors of the current batch
    ada_emb,     \* dense vectors of the current batch
    points,      \* points built for the current batch
    attempt,     \* `attempt` of the retry_request in progress
    outer,       \* `attempt` of the retry_request around the test query's _logic
    fieldIdx,    \* position in text_index_fields
    collExists,  \* the collection exists in the store
    collPoints,  \* its points
    collIndexes, \* its text payload indexes
    results,     \* ids of the hits of the test query
    result,      \* outcome: "running", "true", "false" (returned) or "raised"
    err,         \* what raised
    issued,      \* history: <<op, n>> of every external call issued
    done,        \* history: <<op, n>> of every external call that succeeded
    fails,       \* history: failed attempts of the call in progress
    exhausted,   \* history: batch whose upsert failed Retries times (0: none)
    \* a retry wrapper at work
    wrapper,     \* retry_request or retry_async
    retries,     \* its arguments
    backoff,
    jitter,
    rAttempt,    \* `attempt` of its loop
    rpc,         \* "call": about to call func; "sleep": about to sleep; "done"
    trace,       \* history: what each call of func did, in order
    sleeps,      \* history: the waits slept, with the attempt each followed
    outcome,     \* how the wrapper ended, and after which attempt
    \* reset_collection called again
    resetCalls,  \* calls of reset_collection started
    afterFirst,  \* the store as the first call left it
    \* a product search
    products,    \* payloads of the points of the products collection
    fn,          \* the function called
    args,        \* its arguments
    query_filter,\* the filter make_filter built
    hits,        \* the payloads returned
    \* a fused query on the store
    qpoints,     \* payload of each point of the collection, by id
    order,       \* ids by decreasing similarity to the query, per vector space
    request,     \* the query_points request issued
    candidates,  \* ids each prefetch returned
    res,         \* ids the store answered
    fpc,         \* control point of the hybrid search
    \* the normalizer
    raw,         \* the raw hits: points_to_list's argument
    cards,       \* its result
    npc,         \* "call": about to run; "done": returned
    \* a search call, step by step
    calls,       \* history: the external calls issued, in order
    sAttempt,    \* `attempt` of the retry_request around _logic
    \* the rebuild of products_services
    lpc,         \* control point of update_products_services
    service_ids, \* ids of the services of the tenant
    max_parallel,\* its argument
    semaphore,   \* free permits of asyncio.Semaphore(max_parallel)
    product_rows,\* articles of the products fetched
    tasks,       \* state of each _fetch_service_id task
    links,       \* products_services as other sessions see it
    txlinks,     \* products_services as the open transaction sees it
    before,      \* history: products_services when the call began
    lookups,     \* history: lookups started, by product
    lres,        \* what update_products_services returned
    \* the index check before the transaction
    ipc,         \* control point of _check_and_fix_products_indexes
    primary_exists, \* public.products_article_key is there
    btree_rows,  \* the btree indexes of products the catalog lists
    suspects,    \* `suspects`
    bad,         \* `bad` (the indexes only)
    still_bad,   \* `still_bad`
    ipos,        \* position of the loop at work
    sql,         \* history: the statements issued, in order
    ires,        \* "started": the transaction is entered; "false": returned False
    \* a call of embed_texts, alone or inside a search's _logic
    texts,       \* the argument `texts`
    epc,         \* control point of embed_texts and of the _logic around it
    eAttempt,    \* `attempt` of retry_request(openai_client.embeddings.create)
    provider,    \* history: the provider calls, each with its input
    vectors,     \* what embed_texts returned
    oAttempt,    \* `attempt` of retry_request(_logic) (0: no search around)
    storeq,      \* history: the vector-store queries of the search
    \* two rebuilds of one collection
    racePc,      \* control point of each rebuild
    raceAttempt, \* `attempt` of the retry_request each is in
    raceBatch,   \* number of the batch each is at
    raceResult,  \* outcome of each: "running", "true", "false" or "raised"
    raceDocs,    \* number of batches of the load
    shared,      \* the collection: whether it exists, and its points
    \* update_products_services for two channels, one auxiliary collection
    apc,         \* control point of each call
    aaux,        \* what the rebuild of the auxiliary collection returned
    aatt,        \* `attempt` of the retry_request each is in
    afound,      \* insert_tuples of each
    aseen,       \* history: the collection as the lookup of each found it
    aret,        \* what each call returned
    alog,        \* history: the stages each has passed
    svcKind,     \* the services of each channel: none, blank names, named
    acoll,       \* the auxiliary collection
    alinks,      \* the table products_services
    clock,       \* minutes since the thread was created
    md,          \* the thread metadata held by the LangGraph server
    timeout_minutes,  \* body["timeout_minutes"] of the checks
    cooldown_minutes, \* body["cooldown_minutes"] of the checks
    reminder_limit,   \* body["reminder_limit"] of the checks
    kpc,         \* control point of reminders_check
    cnow,        \* `now` of the running check
    snap,        \* the metadata the running check read with threads.search
    gpc,         \* control point of run_sync
    gdelivery,   \* `delivery` of the running run_sync
    delivered,   \* history: the reminders delivered, with the metadata they were decided on
    sinceReply   \* history: reminders delivered since the last assistant reply

rebuildVars == << kind, pc, docs, bidx, filtered, bm25_emb, ada_emb, points,
                  attempt, outer, fieldIdx, results, result, err >>
storeVars == << collExists, collPoints, collIndexes >>
histVars == << issued, done, fails, exhausted >>
retryVars == << wrapper, retries, backoff, jitter, rAttempt, rpc, trace, sleeps, outcome >>
resetVars == << resetCalls, afterFirst >>
searchVars == << products, fn, args, query_filter, hits >>
fuseVars == << qpoints, order, request, candidates, res, fpc >>
normVars == << raw, cards, npc >>
runVars == << calls, sAttempt >>
linkVars == << lpc, service_ids, max_parallel, semaphore, product_rows, tasks, links, txlinks,
              before, lookups, lres >>
indexVars == << ipc, primary_exists, btree_rows, suspects, bad, still_bad, ipos, sql, ires >>
embedVars == << texts, epc, eAttempt, provider, vectors, oAttempt, storeq >>
raceVars == << racePc, raceAttempt, raceBatch, raceResult, raceDocs, shared >>
auxVars == << apc, aaux, aatt, afound, aseen, aret, alog, svcKind, acoll, alinks >>
remindVars == << clock, md, timeout_minutes, cooldown_minutes, reminder_limit, kpc, cnow, snap, gpc, gdelivery, delivered, sinceReply >>
lateVars == << embedVars, raceVars, auxVars, remindVars >>
otherVars == << fuseVars, normVars, runVars, linkVars, indexVars, lateVars >>
baseVars == << rebuildVars, storeVars, histVars, retryVars, resetVars >>
sideVars == << retryVars, resetVars, searchVars, otherVars >>
vars == << rebuildVars, storeVars, histVars, sideVars >>

\* No retry wrapper, second reset or search is at work.
RetryIdle ==
    /\ wrapper = "none"
    /\ retries = 0
    /\ backoff = 0
    /\ jitter = 0
    /\ rAttempt = 0
    /\ rpc = "done"
    /\ trace = <<>>
    /\ sleeps = <<>>
    /\ outcome = [state |-> "none", of |-> 0]

ResetIdle ==
    /\ resetCalls = 0
    /\ afterFirst = <<>>

SearchIdle ==
    /\ products = {}
    /\ fn = "none"
    /\ args = <<>>
    /\ query_filter = <<>>
    /\ hits = {}

FuseIdle ==
    /\ qpoints = <<>>
    /\ order = <<>>
    /\ request = <<>>
    /\ candidates = <<>>
    /\ res = {}
    /\ fpc = "done"

NormIdle ==
    /\ raw = <<>>
    /\ cards = <<>>
    /\ npc = "done"

RunIdle ==
    /\ calls = <<>>
    /\ sAttempt = 0

LinkIdle ==
    /\ lpc = "returned"
    /\ service_ids = {}
    /\ max_parallel = 0
    /\ semaphore = 0
    /\ product_rows = <<>>
    /\ tasks = <<>>
    /\ links = {}
    /\ txlinks = {}
    /\ before = {}
    /\ lookups = <<>>
    /\ lres = "none"

IndexIdle ==
    /\ ipc = "returned"
    /\ primary_exists = FALSE
    /\ btree_rows = <<>>
    /\ suspects = <<>>
    /\ bad = <<>>
    /\ still_bad = <<>>
    /\ ipos = 0
    /\ sql = <<>>
    /\ ires = "none"

EmbedIdle ==
    /\ texts = <<>>
    /\ epc = "none"
    /\ eAttempt = 0
    /\ provider = <<>>
    /\ vectors = <<>>
    /\ oAttempt = 0
    /\ storeq = <<>>

RaceIdle ==
    /\ racePc = << >>
    /\ raceAttempt = << >>
    /\ raceBatch = << >>
    /\ raceResult = << >>
    /\ raceDocs = 0
    /\ shared = << >>

AuxIdle ==
    /\ apc = << >>
    /\ aaux = << >>
    /\ aatt = << >>
    /\ afound = << >>
    /\ aseen = << >>
    /\ aret = << >>
    /\ alog = << >>
    /\ svcKind = << >>
    /\ acoll = << >>
    /\ alinks = {}

RemindIdle ==
    /\ clock = 0
    /\ md = << >>
    /\ timeout_minutes = 0
    /\ cooldown_minutes = 0
    /\ reminder_limit = 0
    /\ kpc = "idle"
    /\ cnow = 0
    /\ snap = << >>
    /\ gpc = "idle"
    /\ gdelivery = << >>
    /\ delivered = << >>
    /\ sinceReply = 0

LateIdle == EmbedIdle /\ RaceIdle /\ AuxIdle /\ RemindIdle

OtherIdle == FuseIdle /\ NormIdle /\ RunIdle /\ LinkIdle /\ IndexIdle /\ LateIdle

Init ==
    /\ kind \in Kinds
    /\ pc = "load"
    /\ docs = <<>>
    /\ bidx = 1
    /\ filtered = <<>>
    /\ bm25_emb = <<>>
    /\ ada_emb = <<>>
    /\ points = <<>>
    /\ attempt = 1
    /\ outer = 1
    /\ fieldIdx = 1
    /\ collExists \in BOOLEAN
    /\ collPoints = IF collExists THEN OldPoints ELSE {}
    /\ collIndexes = IF collExists THEN { TextIndexFields(kind)[i] : i \in 1..Len(TextIndexFields(kind)) } ELSE {}
    /\ results = {}
    /\ result = "running"
    /\ err = "none"
    /\ issued = {}
    /\ done = {}
    /\ fails = 0
    /\ exhausted = 0
    /\ RetryIdle
    /\ ResetIdle
    /\ SearchIdle
    /\ OtherIdle

batches == batch_iterable(docs, BatchSize)

\* An exception leaves the rebuild: nothing in qdrant_create_*_async or
\* fill_collection_* catches it.
Raise(e) ==
    /\ pc' = "end"
    /\ result' = "raised"
    /\ err' = e

GoStage(stage) == pc' = StageEntry(stage, kind)

\* ----------------------------------------------------------------- actions
\* docs = await *_load_from_postgres(); if not docs: return False.
\* asyncpg.connect or conn.fetch may raise; the rows are the query's result.
Load ==
    /\ pc = "load"
    /\ issued' = issued \cup { <<"load", 0>> }
    /\ \/ /\ Raise("load")
          /\ UNCHANGED << docs, done >>
       \/ \E d \in DocSeqs :
            /\ docs' = d
            /\ done' = done \cup { <<"load", 0>> }
            /\ IF EmptyLoad(d)
               THEN pc' = "end" /\ result' = "false" /\ err' = err
               ELSE GoStage(NextStage("load")) /\ UNCHANGED << result, err >>
    /\ UNCHANGED << sideVars, kind, bidx, filtered, bm25_emb, ada_emb, points, attempt, outer,
                    fieldIdx, results, storeVars, fails, exhausted >>

\* Variant: delete_collection outside the try, its exception not swallowed.
ResetDeleteRaises ==
    /\ pc = "delete"
    /\ issued' = issued \cup { <<"delete", 0>> }
    /\ \/ /\ collExists' = FALSE
          /\ collPoints' = {}
          /\ collIndexes' = {}
          /\ done' = done \cup { <<"delete", 0>> }
          /\ pc' = "create"
          /\ UNCHANGED << result, err >>
       \/ /\ Raise("delete")
          /\ UNCHANGED << storeVars, done >>
    /\ UNCHANGED << sideVars, kind, docs, bidx, filtered, bm25_emb, ada_emb, points,
                    attempt, outer, fieldIdx, results, fails, exhausted >>

\* Variant: no delete_collection before the create.
ResetDeleteSkipped ==
    /\ pc = "delete"
    /\ pc' = "create"
    /\ UNCHANGED << sideVars, kind, docs, bidx, filtered, bm25_emb, ada_emb, points,
                    attempt, outer, fieldIdx, results, result, err, storeVars, histVars >>

\* Variant: the delete succeeds and readers still see the old collection, as
\* if a transaction around the rebuild held it back.
ResetDeleteUnseen ==
    /\ pc = "delete"
    /\ issued' = issued \cup { <<"delete", 0>> }
    /\ \/ /\ done' = done \cup { <<"delete", 0>> }
          /\ UNCHANGED storeVars
       \/ UNCHANGED << storeVars, done >>
    /\ pc' = "create"
    /\ UNCHANGED << sideVars, kind, docs, bidx, filtered, bm25_emb, ada_emb, points, attempt,
                    outer, fieldIdx, results, result, err, fails, exhausted >>

\* reset_collection, first statement: try: delete_collection except: warn.
\* The delete removes the collection, or raises (no such collection, or the
\* store failed) and leaves the store as it was; the exception is swallowed.
ResetDelete ==
    /\ pc = "delete"
    /\ issued' = issued \cup { <<"delete", 0>> }
    /\ \/ /\ collExists' = FALSE
          /\ collPoints' = {}
          /\ collIndexes' = {}
          /\ done' = done \cup { <<"delete", 0>> }
       \/ UNCHANGED << storeVars, done >>
    /\ pc' = "create"
    /\ UNCHANGED << sideVars, kind, docs, bidx, filtered, bm25_emb, ada_emb, points, attempt,
                    outer, fieldIdx, results, result, err, fails, exhausted >>

\* reset_collection: await client.create_collection(...), called directly.
\* The store refuses to create a collection that exists.
ResetCreate ==
    /\ pc = "create"
    /\ issued' = issued \cup { <<"create", 0>> }
    /\ \/ /\ ~collExists
          /\ collExists' = TRUE
          /\ collPoints' = {}
          /\ collIndexes' = {}
          /\ done' = done \cup { <<"create", 0>> }
          /\ IF TextIndexFields(kind) # <<>>
             THEN pc' = "index"
             ELSE GoStage(NextStage("reset"))
          /\ UNCHANGED << result, err >>
       \/ /\ Raise("create")
          /\ UNCHANGED << storeVars, done >>
    /\ UNCHANGED << sideVars, kind, docs, bidx, filtered, bm25_emb, ada_emb, points, attempt,
                    outer, fieldIdx, results, fails, exhausted >>

\* reset_collection: for field in text_index_fields: create_payload_index.
ResetIndex ==
    /\ pc = "index"
    /\ issued' = issued \cup { <<"index", fieldIdx>> }
    /\ \/ /\ collExists
          /\ collIndexes' = collIndexes \cup { TextIndexFields(kind)[fieldIdx] }
          /\ done' = done \cup { <<"index", fieldIdx>> }
          /\ fieldIdx' = fieldIdx + 1
          /\ IF fieldIdx = Len(TextIndexFields(kind))
             THEN GoStage(NextStage("reset"))
             ELSE pc' = pc
          /\ UNCHANGED << result, err >>
       \/ /\ Raise("index")
          /\ UNCHANGED << collIndexes, done, fieldIdx >>
    /\ UNCHANGED << sideVars, kind, docs, bidx, filtered, bm25_emb, ada_emb, points, attempt,
                    outer, results, collExists, collPoints, fails, exhausted >>

\* fill_collection_*: head of the batch loop. Takes the next batch, filters
\* it, skips it when nothing is left, else computes the sparse vectors; when
\* the batches are exhausted the fill returns.
FillBatch ==
    /\ pc = "batch"
    /\ IF bidx > Len(batches)
       THEN /\ GoStage(NextStage("fill"))
            /\ UNCHANGED << bidx, filtered, bm25_emb, result, err, issued >>
       ELSE IF FilterRaises(batches[bidx])
       THEN /\ Raise("null_text")
            /\ UNCHANGED << bidx, filtered, bm25_emb, issued >>
       ELSE LET flt == FilterBatch(batches[bidx])
                names == [i \in 1..Len(flt) |-> flt[i].text]
            IN  IF SkipBatch(flt)
                THEN /\ bidx' = bidx + 1
                     /\ filtered' = flt
                     /\ UNCHANGED << pc, bm25_emb, result, err, issued >>
                ELSE /\ filtered' = flt
                     /\ bm25_emb' = passage_embed(names)
                     /\ issued' = issued \cup { <<"sparse", bidx>> }
                     /\ pc' = "embed"
                     /\ UNCHANGED << bidx, result, err >>
    /\ attempt' = 1
    /\ UNCHANGED << sideVars, kind, docs, ada_emb, points, outer, fieldIdx, results,
                    storeVars, done, fails, exhausted >>

\* ada_embeddings(names) -> embed_texts: drops blank texts, returns [] with
\* no call when nothing is left, else one attempt of
\* retry_request(openai_client.embeddings.create, input=texts, ...).
EmbedDense ==
    /\ pc = "embed"
    /\ LET names == [i \in 1..Len(filtered) |-> filtered[i].text]
           input == EmbedInput(names)
       IN  IF input = <<>>
           THEN /\ ada_emb' = <<>>
                /\ pc' = "build"
                /\ UNCHANGED << attempt, result, err, issued, done, fails >>
           ELSE /\ issued' = issued \cup { <<"dense", bidx>> }
                /\ \E ok \in BOOLEAN :
                     LET step == RetryStep(attempt, ok)
                     IN  /\ fails' = IF step = "retry" THEN fails + 1 ELSE 0
                         /\ done' = IF ok THEN done \cup { <<"dense", bidx>> } ELSE done
                         /\ CASE step = "return" ->
                                   /\ ada_emb' = [i \in 1..Len(input) |-> DenseVector(input[i])]
                                   /\ pc' = "build"
                                   /\ attempt' = 1
                                   /\ UNCHANGED << result, err >>
                              [] step = "retry" ->
                                   /\ attempt' = attempt + 1
                                   /\ UNCHANGED << pc, ada_emb, result, err >>
                              [] step = "raise" ->
                                   /\ Raise("embed")
                                   /\ UNCHANGED << ada_emb, attempt >>
    /\ UNCHANGED << sideVars, kind, docs, bidx, filtered, bm25_emb, points, outer, fieldIdx,
                    results, storeVars, exhausted >>

\* points = [models.PointStruct(...) for i, d in enumerate(filtered)]
Build ==
    /\ pc = "build"
    /\ IF BuildRaises(filtered, ada_emb, bm25_emb)
       THEN Raise("index_error") /\ UNCHANGED points
       ELSE /\ points' = BuildPoints(filtered, ada_emb, bm25_emb)
            /\ pc' = "upsert"
            /\ UNCHANGED << result, err >>
    /\ UNCHANGED << sideVars, kind, docs, bidx, filtered, bm25_emb, ada_emb, attempt, outer,
                    fieldIdx, results, storeVars, histVars >>

\* One attempt of retry_request(qdrant_client.upload_points, ...). A failed
\* attempt has written the batch or not (the request is lost, or its answer).
Upsert ==
    /\ pc = "upsert"
    /\ issued' = issued \cup { <<"upsert", bidx>> }
    /\ \E ok \in BOOLEAN, applied \in BOOLEAN :
         LET step == RetryStep(attempt, ok)
         IN  /\ ok => applied
             /\ applied => collExists
             /\ collPoints' = IF applied THEN UpsertPoints(collPoints, points) ELSE collPoints
             /\ fails' = IF step = "retry" THEN fails + 1 ELSE 0
             /\ exhausted' = IF ~ok /\ fails + 1 >= Retries THEN bidx ELSE exhausted
             /\ done' = IF ok THEN done \cup { <<"upsert", bidx>> } ELSE done
             /\ CASE step = "return" ->
                       /\ bidx' = bidx + 1
                       /\ pc' = "batch"
                       /\ attempt' = 1
                       /\ UNCHANGED << result, err >>
                  [] step = "retry" ->
                       /\ attempt' = attempt + 1
                       /\ UNCHANGED << pc, bidx, result, err >>
                  [] step = "raise" ->
                       /\ Raise("upsert")
                       /\ UNCHANGED << bidx, attempt >>
    /\ UNCHANGED << sideVars, kind, docs, filtered, bm25_emb, ada_emb, points, outer, fieldIdx,
                    results, collExists, collIndexes >>

\* An exception out of _logic, seen by the retry_request around it.
LogicFails ==
    LET step == RetryStep(outer, FALSE)
    IN  CASE step = "retry" ->
               /\ outer' = outer + 1
               /\ attempt' = 1
               /\ pc' = "check_embed"
               /\ UNCHANGED << result, err >>
          [] step = "raise" ->
               /\ Raise("check")
               /\ UNCHANGED << outer, attempt >>
          [] step = "return" ->
               /\ pc' = "return"
               /\ UNCHANGED << outer, attempt, result, err >>

\* retriever_product_hybrid_async(1, query): _logic embeds the query with
\* ada_embeddings([query]), one attempt of the inner retry_request per step.
CheckEmbed ==
    /\ pc = "check_embed"
    /\ issued' = issued \cup { <<"dense_query", 0>> }
    /\ \E ok \in BOOLEAN :
         LET step == RetryStep(attempt, ok)
         IN  /\ fails' = IF step = "retry" THEN fails + 1 ELSE 0
             /\ CASE step = "return" ->
                       /\ pc' = "check_query"
                       /\ attempt' = 1
                       /\ UNCHANGED << outer, result, err >>
                  [] step = "retry" ->
                       /\ attempt' = attempt + 1
                       /\ UNCHANGED << pc, outer, result, err >>
                  [] step = "raise" -> LogicFails
    /\ UNCHANGED << sideVars, kind, docs, bidx, filtered, bm25_emb, ada_emb, points, fieldIdx,
                    results, storeVars, done, exhausted >>

\* _logic: qdrant_client.query_points(prefetch=[dense, sparse], RRF,
\* limit=12), then points_to_list; a failure is one failed attempt of the
\* retry_request around _logic.
CheckQuery ==
    /\ pc = "check_query"
    /\ issued' = issued \cup { <<"query", 0>> }
    /\ \/ /\ collExists
          /\ \E h \in QueryHits(collPoints, HybridLimit) : results' = h
          /\ done' = done \cup { <<"query", 0>> }
          /\ GoStage(NextStage("check"))
          /\ UNCHANGED << outer, attempt, result, err >>
       \/ /\ LogicFails
          /\ UNCHANGED << results, done >>
    /\ UNCHANGED << sideVars, kind, docs, bidx, filtered, bm25_emb, ada_emb, points, fieldIdx,
                    storeVars, fails, exhausted >>

\* retriver_hybrid_async(query, collection_name[, channel_id]) of the FAQ and
\* services rebuilds: returns the hits of one query, or raises.
SelfCheck ==
    /\ pc = "selfcheck"
    /\ issued' = issued \cup { <<"query", 0>> }
    /\ \/ /\ collExists
          /\ \E h \in QueryHits(collPoints, HybridLimit) : results' = h
          /\ done' = done \cup { <<"query", 0>> }
          /\ GoStage(NextStage("check"))
          /\ UNCHANGED << result, err >>
       \/ /\ Raise("check")
          /\ UNCHANGED << results, done >>
    /\ UNCHANGED << sideVars, kind, docs, bidx, filtered, bm25_emb, ada_emb, points, attempt,
                    outer, fieldIdx, storeVars, fails, exhausted >>

\* return bool(results)
Return ==
    /\ pc = "return"
    /\ result' = RebuildResult(results)
    /\ pc' = "end"
    /\ UNCHANGED << sideVars, kind, docs, bidx, filtered, bm25_emb, ada_emb, points, attempt,
                    outer, fieldIdx, results, err, storeVars, histVars >>

Next ==
    \/ Load
    \/ ResetDelete
    \/ ResetCreate
    \/ ResetIndex
    \/ FillBatch
    \/ EmbedDense
    \/ Build
    \/ Upsert
    \/ CheckEmbed
    \/ CheckQuery
    \/ SelfCheck
    \/ Return

Spec == Init /\ [][Next]_vars

\* Every external call returns or raises, and the coroutine is resumed: a
\* step that can be taken is taken.
SpecLive == Spec /\ WF_vars(Next)

\* No rebuild runs.
RebuildIdle ==
    /\ kind = "faq"
    /\ pc = "end"
    /\ docs = <<>>
    /\ bidx = 1
    /\ filtered = <<>>
    /\ bm25_emb = <<>>
    /\ ada_emb = <<>>
    /\ points = <<>>
    /\ attempt = 1
    /\ outer = 1
    /\ fieldIdx = 1
    /\ results = {}
    /\ result = "running"
    /\ err = "none"
    /\ issued = {}
    /\ done = {}
    /\ fails = 0
    /\ exhausted = 0

StoreIdle ==
    /\ collExists = FALSE
    /\ collPoints = {}
    /\ collIndexes = {}

\* ------------------------------------------------------- the retry wrapper
\* retry_request(func, *args, retries, backoff) and the wrapper of
\* retry_async(retries, backoff, jitter)(func), called once on a function
\* whose calls succeed or raise as they please.
InitRetry ==
    /\ wrapper \in Wrappers
    /\ retries \in 1..MaxRetries
    /\ backoff \in Backoffs
    /\ jitter \in Jitters(wrapper)
    /\ rAttempt = 1
    /\ rpc = "call"
    /\ trace = <<>>
    /\ sleeps = <<>>
    /\ outcome = [state |-> "running", of |-> 0]
    /\ RebuildIdle
    /\ StoreIdle
    /\ ResetIdle
    /\ SearchIdle
    /\ OtherIdle

\* try: return await func(*args, **kwargs) / except: if attempt == retries:
\* raise. An exception the except clause does not name leaves at once.
RetryCall ==
    /\ rpc = "call"
    /\ \E what \in CallOutcomes :
         LET step == IF what = "escape" THEN "raise"
                     ELSE RetryDecision(rAttempt, retries, what = "ok")
         IN  /\ trace' = Append(trace, what)
             /\ CASE step = "return" ->
                       /\ outcome' = [state |-> "returned", of |-> rAttempt]
                       /\ rpc' = "done"
                  [] step = "raise" ->
                       /\ outcome' = [state |-> "raised", of |-> rAttempt]
                       /\ rpc' = "done"
                  [] step = "retry" ->
                       /\ rpc' = "sleep"
                       /\ UNCHANGED outcome
    /\ UNCHANGED << wrapper, retries, backoff, jitter, rAttempt, sleeps >>
    /\ UNCHANGED << rebuildVars, storeVars, histVars, resetVars, searchVars, otherVars >>

\* wait = backoff ** attempt + random.uniform(0, jitter);
\* await asyncio.sleep(wait); the loop goes to the next attempt.
RetrySleep ==
    /\ rpc = "sleep"
    /\ \E rnd \in Randoms :
         sleeps' = Append(sleeps, [after |-> rAttempt,
                                   wait |-> Wait(backoff, rAttempt, jitter, rnd)])
    /\ rAttempt' = rAttempt + 1
    /\ rpc' = "call"
    /\ UNCHANGED << wrapper, retries, backoff, jitter, trace, outcome >>
    /\ UNCHANGED << rebuildVars, storeVars, histVars, resetVars, searchVars, otherVars >>

NextRetry ==
    \/ RetryCall
    \/ RetrySleep

SpecRetry == InitRetry /\ [][NextRetry]_vars

\* ------------------------------------------------- reset_collection twice
\* reset_collection(client, name, text_index_fields) called, and called
\* again when it has returned, on a store that answers every call: a delete
\* removes the collection that exists, a create makes the one that does not,
\* an index is created on the collection that exists. The collection the
\* first call finds is any an earlier rebuild may have left.
AllIndexFields == { TEXT_INDEX_FIELDS[i] : i \in 1..Len(TEXT_INDEX_FIELDS) }

InitReset ==
    /\ kind \in Kinds
    /\ pc = "delete"
    /\ docs = <<>>
    /\ bidx = 1
    /\ filtered = <<>>
    /\ bm25_emb = <<>>
    /\ ada_emb = <<>>
    /\ points = <<>>
    /\ attempt = 1
    /\ outer = 1
    /\ fieldIdx = 1
    /\ results = {}
    /\ result = "running"
    /\ err = "none"
    /\ issued = {}
    /\ done = {}
    /\ fails = 0
    /\ exhausted = 0
    /\ collExists \in BOOLEAN
    /\ collPoints \in (IF collExists THEN SUBSET OldPoints ELSE { {} })
    /\ collIndexes \in (IF collExists THEN SUBSET AllIndexFields ELSE { {} })
    /\ resetCalls = 1
    /\ afterFirst = <<>>
    /\ RetryIdle
    /\ SearchIdle
    /\ OtherIdle

StoreState == [exists |-> collExists, points |-> collPoints, indexes |-> collIndexes]

ResetDeleteAnswered ==
    /\ ResetDelete
    /\ (collExists /\ <<"delete", 0>> \in issued') => ~collExists'

ResetCreateAnswered ==
    /\ ResetCreate
    /\ ~collExists => collExists'

ResetIndexAnswered ==
    /\ ResetIndex
    /\ collExists => result' = result

\* The first call has returned (the caller is past reset_collection); the
\* caller calls it again with the same arguments.
ResetAgain ==
    /\ pc = StageEntry(NextStage("reset"), kind)
    /\ resetCalls = 1
    /\ resetCalls' = 2
    /\ afterFirst' = StoreState
    /\ pc' = "delete"
    /\ fieldIdx' = 1
    /\ UNCHANGED << kind, docs, bidx, filtered, bm25_emb, ada_emb, points, attempt,
                    outer, results, result, err, storeVars, histVars, retryVars,
                    searchVars, otherVars >>

NextReset ==
    \/ ResetDeleteAnswered
    \/ ResetCreateAnswered
    \/ ResetIndexAnswered
    \/ ResetAgain

SpecReset == InitReset /\ [][NextReset]_vars

\* ---------------------------------------------------------- product search
\* A text of a criterion or of a payload field is a sequence of words (the
\* tokens of the text index); Null is an absent field, NoList a list
\* argument that is None. An optional channel id is <<>> (None) or <<c>>.
Tokens(t) == { t[i] : i \in 1..Len(t) }
NoList == << Null >>

\* FieldCondition(key=k, match=MatchValue(value=v)) and
\* FieldCondition(key=k, match=MatchText(text=t))
MatchValue(k, v) == [key |-> k, match |-> "value", value |-> v, text |-> <<>>]
MatchText(k, t) == [key |-> k, match |-> "text", value |-> 0, text |-> t]

TextConds(k, lst) == [i \in 1..Len(lst) |-> MatchText(k, lst[i])]

\* A list argument of Filter: None (absent) or a list.
NoneList == [none |-> TRUE, items |-> <<>>]
OrNone(lst) == IF lst # <<>> THEN [none |-> FALSE, items |-> lst] ELSE NoneList

\* make_filter returning None.
NoFilter == [none |-> TRUE, must |-> NoneList, must_not |-> NoneList, should |-> NoneList]

\* Python truth value of `channel_id` (None and 0 are false) and of a list
\* argument (None and [] are false).
ChannelTruthy(c) == c # <<>> /\ c[1] # 0
ListTruthy(lst) == lst # NoList /\ lst # <<>>

\* Variant: the contraindications appended to should.
make_filter_soft(channel_id, indications, contraindications, body_parts, product_type, use_should) ==
    LET chan == IF ChannelTruthy(channel_id)
                THEN << MatchValue("channel_id", channel_id[1]) >> ELSE <<>>
        ind == IF ListTruthy(indications)
               THEN TextConds("indications_key", indications) ELSE <<>>
        body == IF ListTruthy(body_parts)
                THEN TextConds("body_parts", body_parts) ELSE <<>>
        ptype == IF ListTruthy(product_type)
                 THEN TextConds("product_type", product_type) ELSE <<>>
        contra == IF ListTruthy(contraindications)
                  THEN TextConds("contraindications_key", contraindications) ELSE <<>>
        must == chan \o (IF use_should THEN <<>> ELSE ind) \o body \o ptype
        should == (IF use_should THEN ind ELSE <<>>) \o contra
    IN  IF must # <<>> \/ should # <<>>
        THEN [none |-> FALSE, must |-> OrNone(must), must_not |-> NoneList,
              should |-> OrNone(should)]
        ELSE NoFilter

\* make_filter(channel_id, indications, contraindications, body_parts,
\* product_type, use_should)
make_filter(channel_id, indications, contraindications, body_parts, product_type, use_should) ==
    LET chan == IF ChannelTruthy(channel_id)
                THEN << MatchValue("channel_id", channel_id[1]) >> ELSE <<>>
        ind == IF ListTruthy(indications)
               THEN TextConds("indications_key", indications) ELSE <<>>
        body == IF ListTruthy(body_parts)
                THEN TextConds("body_parts", body_parts) ELSE <<>>
        ptype == IF ListTruthy(product_type)
                 THEN TextConds("product_type", product_type) ELSE <<>>
        contra == IF ListTruthy(contraindications)
                  THEN TextConds("contraindications_key", contraindications) ELSE <<>>
        must == chan \o (IF use_should THEN <<>> ELSE ind) \o body \o ptype
        must_not == contra
        should == IF use_should THEN ind ELSE <<>>
    IN  IF must # <<>> \/ must_not # <<>> \/ should # <<>>
        THEN [none |-> FALSE, must |-> OrNone(must), must_not |-> OrNone(must_not),
              should |-> OrNone(should)]
        ELSE NoFilter

\* The arguments make_filter is applied to.
ChannelIds == { <<>>, <<0>>, <<1>>, <<2>> }
Criteria == { NoList, <<>>, << <<"x">> >>, << <<"x">>, <<"y">> >> }
FilterArgs ==
    [channel_id : ChannelIds, indications : Criteria, contraindications : Criteria,
     body_parts : Criteria, product_type : Criteria, use_should : BOOLEAN]

ApplyMakeFilter(a) ==
    make_filter(a.channel_id, a.indications, a.contraindications, a.body_parts,
                a.product_type, a.use_should)

\* make_filter applied to any arguments.
InitFilter ==
    /\ args \in FilterArgs
    /\ fn = "none"
    /\ products = {}
    /\ query_filter = <<>>
    /\ hits = {}
    /\ RebuildIdle
    /\ StoreIdle
    /\ RetryIdle
    /\ ResetIdle
    /\ OtherIdle

MakeFilter ==
    /\ fn = "none"
    /\ fn' = "make_filter"
    /\ query_filter' = ApplyMakeFilter(args)
    /\ UNCHANGED << products, args, hits >>
    /\ UNCHANGED << baseVars, otherVars >>

NextFilter == MakeFilter

SpecFilter == InitFilter /\ [][NextFilter]_vars

\* The payload of a product point: the columns of product_service_view that
\* the filter reads. A text field may be absent (Null) or empty.
Product(c, ind, contra) ==
    [channel_id |-> c, indications_key |-> ind, contraindications_key |-> contra,
     body_parts |-> <<"x">>, product_type |-> <<"x">>]

ProductPayloads ==
    { Product(1, <<"x">>, <<"x">>),
      Product(1, <<"x">>, <<"y">>),
      Product(1, <<"y">>, <<"x", "y">>),
      Product(1, <<"x">>, <<>>),
      Product(2, <<"x">>, Null),
      Product(2, <<"y">>, <<"x">>) }

Collections == { c \in SUBSET ProductPayloads : Cardinality(c) <= MaxProducts }

\* The store's full-text match: the field is there and holds every word of
\* the text.
TextMatches(field, t) == field # Null /\ Tokens(t) \subseteq Tokens(field)

\* The store's evaluation of a condition on a payload.
Matches(cond, p) ==
    IF cond.match = "value"
    THEN p[cond.key] = cond.value
    ELSE TextMatches(p[cond.key], cond.text)

\* The store's evaluation of a filter: every must, no must_not, and one of
\* the should conditions when there are any.
Satisfies(p, f) ==
    \/ f.none
    \/ /\ \A i \in 1..Len(f.must.items) : Matches(f.must.items[i], p)
       /\ \A i \in 1..Len(f.must_not.items) : ~Matches(f.must_not.items[i], p)
       /\ \/ f.should.none
          \/ \E i \in 1..Len(f.should.items) : Matches(f.should.items[i], p)

\* What query_points or scroll may return under a filter and a limit: at
\* most `limit` of the points that satisfy the filter.
FilteredHits(coll, f, limit) ==
    { h \in SUBSET { p \in coll : Satisfies(p, f) } : Cardinality(h) <= limit }

\* The query texts (texts of characters) and the criteria of a search.
Queries == { Null, <<>>, <<" ">>, <<"q">> }
FewCriteria == { NoList, << <<"x">> >> }

\* (await ada_embeddings([query]))[0] raises IndexError when embed_texts has
\* dropped the query as blank.
QueryEmbedRaises(query) == Truthy(query) /\ EmbedInput(<< query >>) = <<>>

InitSearch ==
    /\ products \in Collections
    /\ fn = "none"
    /\ args = <<>>
    /\ query_filter = <<>>
    /\ hits = {}
    /\ RebuildIdle
    /\ StoreIdle
    /\ RetryIdle
    /\ ResetIdle
    /\ OtherIdle

\* The call made: the filter is built, then retry_request(_logic) returns the
\* normalized hits of the query (or of the scroll, without a query), or
\* raises when every attempt of _logic has failed.
Searched(name, a, limit) ==
    /\ fn' = name
    /\ args' = a
    /\ query_filter' = ApplyMakeFilter(a)
    /\ \/ hits' = [raised |-> TRUE, records |-> {}]
       \/ /\ ~QueryEmbedRaises(a.query)
          /\ \E h \in FilteredHits(products, ApplyMakeFilter(a), limit) :
               hits' = [raised |-> FALSE, records |-> h]
    /\ UNCHANGED products
    /\ UNCHANGED << baseVars, otherVars >>

\* retriever_product_async(query, indications, contraindications)
Search ==
    \E q \in Queries, ind \in FewCriteria, contra \in Criteria :
        /\ fn = "none"
        /\ Searched("retriever_product_async",
                    [query |-> q, channel_id |-> <<>>, indications |-> ind,
                     contraindications |-> contra, body_parts |-> NoList,
                     product_type |-> NoList, use_should |-> FALSE],
                    SearchLimit)

\* retriever_product_hybrid_async(channel_id, query, indications,
\* contraindications, body_parts, product_type)
HybridSearch ==
    \E c \in ChannelIds, q \in Queries, ind \in FewCriteria, contra \in Criteria,
       body \in FewCriteria, ptype \in FewCriteria :
        /\ fn = "none"
        /\ Searched("retriever_product_hybrid_async",
                    [query |-> q, channel_id |-> c, indications |-> ind,
                     contraindications |-> contra, body_parts |-> body,
                     product_type |-> ptype, use_should |-> TRUE],
                    HybridLimit)

NextSearch ==
    \/ Search
    \/ HybridSearch

SpecSearch == InitSearch /\ [][NextSearch]_vars

\* ------------------------------------------------ the fused (hybrid) query
\* retriever_product_hybrid_async called with a query: the filter is built,
\* one query_points request with two prefetches and RRF fusion is issued, and
\* the store answers it. The vectors of the query are seen through the order
\* they put the points in, per vector space.
Spaces == {"ada-embedding", "bm25"}

\* models.Prefetch(query=..., using=using, limit=limit): no filter of its own.
Prefetch(using, limit) == [using |-> using, limit |-> limit, filter |-> NoFilter]

\* Variant: query_filter left out of the request.
HybridRequestUnfiltered(f) ==
    [prefetch |-> << Prefetch("ada-embedding", HybridLimit),
                     Prefetch("bm25", HybridLimit) >>,
     fusion |-> "rrf", query_filter |-> NoFilter, limit |-> HybridLimit]

\* query_points(prefetch=prefetch, query=FusionQuery(RRF),
\* query_filter=query_filter, limit=12)
HybridRequest(f) ==
    [prefetch |-> << Prefetch("ada-embedding", HybridLimit),
                     Prefetch("bm25", HybridLimit) >>,
     fusion |-> "rrf", query_filter |-> f, limit |-> HybridLimit]

\* s[:n]
Take(s, n) == SubSeq(s, 1, IF Len(s) < n THEN Len(s) ELSE n)

\* The store's answer to one prefetch of a request: the filter of the request
\* applies to each of its prefetches beside the prefetch's own, and the
\* prefetch returns the nearest `limit` of the points that pass.
Prefetched(pts, ranking, pf, root) ==
    Take(SelectSeq(ranking, LAMBDA p : Satisfies(pts[p], root)
                                        /\ Satisfies(pts[p], pf.filter)),
         pf.limit)

\* The store's answers to the fusion: the `limit` best of the candidates of
\* the prefetches, whichever the fused scores make them.
Fusable(cands) == UNION { { cands[s][i] : i \in 1..Len(cands[s]) } : s \in DOMAIN cands }
FusedAnswers(cands, limit) ==
    LET all == Fusable(cands)
        n == IF Cardinality(all) < limit THEN Cardinality(all) ELSE limit
    IN  { h \in SUBSET all : Cardinality(h) = n }

\* The collections ranked: the first k points are of channel 2, the others of
\* channel 1; every third point has a contraindication.
RankedSizes == {2, MaxRanked}
RankedPoints(n, k) ==
    [i \in 1..n |-> Product(IF i <= k THEN 2 ELSE 1, <<"x">>,
                            IF i % 3 = 0 THEN <<"x">> ELSE <<>>)]
Ascending(n) == [i \in 1..n |-> i]
Descending(n) == [i \in 1..n |-> n + 1 - i]
EvensFirst(n) ==
    SelectSeq(Ascending(n), LAMBDA i : i % 2 = 0)
        \o SelectSeq(Ascending(n), LAMBDA i : i % 2 = 1)
Orders(n) == { Ascending(n), Descending(n), EvensFirst(n) }

InitFusion ==
    /\ \E n \in RankedSizes : \E k \in 0..n :
         /\ qpoints = RankedPoints(n, k)
         /\ order \in [Spaces -> Orders(n)]
    /\ fn = "retriever_product_hybrid_async"
    /\ args \in [query : { <<"q">> }, channel_id : ChannelIds,
                 indications : { NoList }, contraindications : FewCriteria,
                 body_parts : { NoList }, product_type : { NoList },
                 use_should : { TRUE }]
    /\ query_filter = <<>>
    /\ products = {}
    /\ hits = {}
    /\ request = <<>>
    /\ candidates = <<>>
    /\ res = {}
    /\ fpc = "filter"
    /\ NormIdle
    /\ RunIdle
    /\ LinkIdle
    /\ IndexIdle
    /\ LateIdle
    /\ RebuildIdle
    /\ StoreIdle
    /\ RetryIdle
    /\ ResetIdle

\* query_filter = make_filter(...)
FusionFilter ==
    /\ fpc = "filter"
    /\ query_filter' = ApplyMakeFilter(args)
    /\ fpc' = "query"
    /\ UNCHANGED << products, fn, args, hits, qpoints, order, request, candidates, res >>
    /\ UNCHANGED << baseVars, normVars, runVars, linkVars, indexVars, lateVars >>

\* await qdrant_client.query_points(...)
FusionQuery ==
    /\ fpc = "query"
    /\ request' = HybridRequest(query_filter)
    /\ fpc' = "prefetch"
    /\ UNCHANGED << searchVars, qpoints, order, candidates, res >>
    /\ UNCHANGED << baseVars, normVars, runVars, linkVars, indexVars, lateVars >>

\* The store runs the two prefetches of the request.
StorePrefetch ==
    /\ fpc = "prefetch"
    /\ candidates' =
         [s \in Spaces |->
            LET pf == CHOOSE q \in { request.prefetch[i] : i \in 1..Len(request.prefetch) } :
                        q.using = s
            IN  Prefetched(qpoints, order[s], pf, request.query_filter)]
    /\ fpc' = "fuse"
    /\ UNCHANGED << searchVars, qpoints, order, request, res >>
    /\ UNCHANGED << baseVars, normVars, runVars, linkVars, indexVars, lateVars >>

\* The store fuses the candidates and answers.
StoreFuse ==
    /\ fpc = "fuse"
    /\ res' \in FusedAnswers(candidates, request.limit)
    /\ fpc' = "done"
    /\ UNCHANGED << searchVars, qpoints, order, request, candidates >>
    /\ UNCHANGED << baseVars, normVars, runVars, linkVars, indexVars, lateVars >>

NextFusion ==
    \/ FusionFilter
    \/ FusionQuery
    \/ StorePrefetch
    \/ StoreFuse

SpecFusion == InitFusion /\ [][NextFusion]_vars

\* ---------------------------------------------------------- the normalizer
\* points_to_list(points). A number of a payload is <<n>>, or <<>> when the
\* key is absent or None; a payload is << fields >>, or <<>> when the point
\* has none (`p.payload or {}`).
DigitChars == << "0", "1", "2", "3", "4", "5", "6", "7", "8", "9" >>

\* f"{n}" of a natural number
RECURSIVE Str(_)
Str(n) == IF n < 10 THEN << DigitChars[n + 1] >>
          ELSE Str(n \div 10) \o << DigitChars[(n % 10) + 1] >>

\* " руб.", its Cyrillic letters written in Latin ones
Rub == << " ", "r", "u", "b", "." >>

\* pl.get(key)
Get(pl, key, none) ==
    IF pl = <<>> THEN none ELSE IF key \in DOMAIN pl[1] THEN pl[1][key] ELSE none

\* Variant: the range is printed whenever both prices are there.
PriceAlwaysRange(price_min, price_max) ==
    IF price_min # <<>> /\ price_max # <<>>
    THEN << Str(price_min[1]) \o << " ", "-", " " >> \o Str(price_max[1]) \o Rub >>
    ELSE <<>>

\* The "price" of a card: <<text>>, or <<>> for None.
Price(price_min, price_max) ==
    IF price_min # <<>> /\ price_max # <<>>
    THEN IF price_min = price_max
         THEN << Str(price_min[1]) \o Rub >>
         ELSE << Str(price_min[1]) \o << " ", "-", " " >> \o Str(price_max[1]) \o Rub >>
    ELSE <<>>

points_to_list(pts) ==
    [i \in 1..Len(pts) |->
        LET pl == pts[i].payload
        IN  [product_id |-> Get(pl, "product_id", <<>>),
             product_name |-> Get(pl, "product_name", Null),
             product_type |-> Get(pl, "product_type", Null),
             body_parts |-> Get(pl, "body_parts", Null),
             indications_key |-> Get(pl, "indications_key", Null),
             contraindications_key |-> Get(pl, "contraindications_key", Null),
             duration |-> Get(pl, "duration", <<>>),
             price |-> Price(Get(pl, "price_min", <<>>), Get(pl, "price_max", <<>>))]]

\* The raw hits: a point with its payload.
Hit(id, price_min, price_max) ==
    [id |-> id,
     payload |-> << [product_id |-> << id >>, product_name |-> << "n" >>,
                     product_type |-> << "x" >>, body_parts |-> Null,
                     indications_key |-> << "x" >>, contraindications_key |-> <<>>,
                     duration |-> << 60 >>,
                     price_min |-> price_min, price_max |-> price_max] >>]
RawHits ==
    { [id |-> 9, payload |-> <<>>],
      Hit(1, << 100 >>, << 100 >>), Hit(2, << 100 >>, << 200 >>),
      Hit(3, <<>>, << 200 >>), Hit(4, << 100 >>, <<>>), Hit(5, <<>>, <<>>),
      Hit(6, << 0 >>, << 0 >>), Hit(7, << 200 >>, << 100 >>) }

InitNormalize ==
    /\ raw \in SeqsUpTo(RawHits, MaxHits)
    /\ cards = <<>>
    /\ npc = "call"
    /\ RebuildIdle
    /\ StoreIdle
    /\ RetryIdle
    /\ ResetIdle
    /\ SearchIdle
    /\ FuseIdle
    /\ RunIdle
    /\ LinkIdle
    /\ IndexIdle
    /\ LateIdle

Normalize ==
    /\ npc = "call"
    /\ cards' = points_to_list(raw)
    /\ npc' = "done"
    /\ UNCHANGED << raw, baseVars, searchVars, fuseVars, runVars, linkVars, indexVars, lateVars >>

NextNormalize == Normalize

SpecNormalize == InitNormalize /\ [][NextNormalize]_vars

\* ------------------------------------------------ a search, call by call
\* retriever_product_async and retriever_product_hybrid_async: the filter is
\* built, then retry_request runs _logic, whose external calls succeed or
\* raise as they please; `calls` records each call with what it was given.
\* query_points(query=query_vector, using="ada-embedding", limit=5,
\* query_filter=query_filter)
SearchRequest(f) ==
    [using |-> "ada-embedding", prefetch |-> <<>>, fusion |-> "none",
     query_filter |-> f, limit |-> SearchLimit]

\* scroll(scroll_filter=query_filter, limit=limit)
ScrollRequest(f, limit) == [scroll_filter |-> f, limit |-> limit]

LimitOf(name) == IF name = "retriever_product_async" THEN SearchLimit ELSE HybridLimit
RequestOf(name, f) ==
    IF name = "retriever_product_async" THEN SearchRequest(f) ELSE HybridRequest(f)

\* The store's answer to a query without prefetch (the nearest `limit` of
\* the points that pass the filter) and to a scroll (the first `limit` of
\* them by id).
Nearest(pts, ranking, f, limit) ==
    Take(SelectSeq(ranking, LAMBDA p : Satisfies(pts[p], f)), limit)

\* The points of an answer, as query_points and scroll return them.
PointsOf(pts, ids) == [i \in 1..Len(ids) |-> [id |-> ids[i], payload |-> << pts[ids[i]] >>]]

\* Where _logic starts: `if query:`
LogicEntry(query) == IF Truthy(query) THEN "embed" ELSE "scroll"

\* retry_request after a failed attempt of _logic
AfterFailure(att, query) ==
    IF RetryStep(att, FALSE) = "raise" THEN "raised" ELSE LogicEntry(query)

InitRun ==
    /\ fn \in {"retriever_product_async", "retriever_product_hybrid_async"}
    /\ args \in [query : Queries,
                 channel_id : IF fn = "retriever_product_async" THEN { <<>> }
                              ELSE { <<1>>, <<2>> },
                 indications : { NoList }, contraindications : FewCriteria,
                 body_parts : { NoList }, product_type : { NoList },
                 use_should : { fn # "retriever_product_async" }]
    /\ \E n \in RankedSizes : \E k \in {0, 1} : qpoints = RankedPoints(n, k)
    /\ order = [s \in Spaces |-> IF s = "bm25" THEN Descending(Len(qpoints))
                                 ELSE EvensFirst(Len(qpoints))]
    /\ query_filter = <<>>
    /\ products = {}
    /\ hits = <<>>
    /\ request = <<>>
    /\ candidates = <<>>
    /\ res = {}
    /\ fpc = "filter"
    /\ calls = <<>>
    /\ sAttempt = 1
    /\ NormIdle
    /\ LinkIdle
    /\ IndexIdle
    /\ LateIdle
    /\ RebuildIdle
    /\ StoreIdle
    /\ RetryIdle
    /\ ResetIdle

RunFilter ==
    /\ fpc = "filter"
    /\ query_filter' = ApplyMakeFilter(args)
    /\ fpc' = LogicEntry(args.query)
    /\ UNCHANGED << products, fn, args, hits, qpoints, order, request, candidates, res >>
    /\ UNCHANGED << baseVars, normVars, runVars, linkVars, indexVars, lateVars >>

\* (await ada_embeddings([query]))[0]: embed_texts drops a blank text and
\* returns [] without a request, and [0] raises IndexError; otherwise the
\* provider answers or embed_texts raises.
RunEmbed ==
    /\ fpc = "embed"
    /\ \E ok \in BOOLEAN :
         LET sent == EmbedInput(<< args.query >>)
             failed == sent = <<>> \/ ~ok
         IN  /\ (sent = <<>>) => ok
             /\ calls' = Append(calls, [op |-> "ada_embeddings",
                                        request |-> [texts |-> << args.query >>],
                                        ok |-> ok])
             /\ fpc' = IF failed THEN AfterFailure(sAttempt, args.query)
                       ELSE IF fn = "retriever_product_async" THEN "query"
                       ELSE "sparse"
             /\ sAttempt' = IF failed /\ sAttempt < Retries THEN sAttempt + 1 ELSE sAttempt
    /\ UNCHANGED << searchVars, qpoints, order, request, candidates, res >>
    /\ UNCHANGED << baseVars, normVars, linkVars, indexVars, lateVars >>

\* next(bm25_embedding_model.query_embed(query)): the local model
RunSparse ==
    /\ fpc = "sparse"
    /\ calls' = Append(calls, [op |-> "query_embed",
                               request |-> [texts |-> << args.query >>], ok |-> TRUE])
    /\ fpc' = "query"
    /\ UNCHANGED << searchVars, qpoints, order, request, candidates, res, sAttempt >>
    /\ UNCHANGED << baseVars, normVars, linkVars, indexVars, lateVars >>

\* await qdrant_client.query_points(...); return points_to_list(res)
RunQuery ==
    /\ fpc = "query"
    /\ request' = RequestOf(fn, query_filter)
    /\ \E ok \in BOOLEAN :
         /\ calls' = Append(calls, [op |-> "query_points", request |-> request', ok |-> ok])
         /\ IF ok
            THEN /\ \E ids \in IF fn = "retriever_product_async"
                               THEN { Nearest(qpoints, order["ada-embedding"], query_filter,
                                              request'.limit) }
                               ELSE { SelectSeq(Ascending(Len(qpoints)), LAMBDA p : p \in h) :
                                        h \in FusedAnswers(
                                                 [s \in Spaces |->
                                                    Nearest(qpoints, order[s], query_filter,
                                                            HybridLimit)],
                                                 request'.limit) } :
                      hits' = points_to_list(PointsOf(qpoints, ids))
                 /\ fpc' = "done"
                 /\ UNCHANGED sAttempt
            ELSE /\ fpc' = AfterFailure(sAttempt, args.query)
                 /\ sAttempt' = IF sAttempt < Retries THEN sAttempt + 1 ELSE sAttempt
                 /\ UNCHANGED hits
    /\ UNCHANGED << products, fn, args, query_filter, qpoints, order, candidates, res >>
    /\ UNCHANGED << baseVars, normVars, linkVars, indexVars, lateVars >>

\* await qdrant_client.scroll(...); return points_to_list(res)
RunScroll ==
    /\ fpc = "scroll"
    /\ \E ok \in BOOLEAN :
         /\ calls' = Append(calls, [op |-> "scroll",
                                    request |-> ScrollRequest(query_filter, LimitOf(fn)),
                                    ok |-> ok])
         /\ IF ok
            THEN /\ hits' = points_to_list(PointsOf(qpoints,
                               Nearest(qpoints, Ascending(Len(qpoints)), query_filter,
                                       LimitOf(fn))))
                 /\ fpc' = "done"
                 /\ UNCHANGED sAttempt
            ELSE /\ fpc' = AfterFailure(sAttempt, args.query)
                 /\ sAttempt' = IF sAttempt < Retries THEN sAttempt + 1 ELSE sAttempt
                 /\ UNCHANGED hits
    /\ UNCHANGED << products, fn, args, query_filter, qpoints, order, request, candidates, res >>
    /\ UNCHANGED << baseVars, normVars, linkVars, indexVars, lateVars >>

NextRun ==
    \/ RunFilter
    \/ RunEmbed
    \/ RunSparse
    \/ RunQuery
    \/ RunScroll

SpecRun == InitRun /\ [][NextRun]_vars

\* ------------------------------------------ the rebuild of products_services
\* update_products_services(channel_id, max_parallel) from the opening of the
\* transaction on. A link is <<article, service id>>; a statement succeeds or
\* raises; each lookup answers with a match, with nothing, or raises.
TenantServices == {1, 2}
OldLinks == { {}, { <<1, 1>>, <<7, 9>> }, { <<1, 2>>, <<2, 2>>, <<3, 1>>, <<7, 9>> } }

\* result[0]["id"] of the lookup of a product: the service it is nearest to.
TopHit(article) == IF article % 2 = 1 THEN 1 ELSE 2

LookupOutcomes == {"match", "none", "raised"}
Finished(t) == t \in LookupOutcomes

\* Variant: a lookup that finds nothing links the product to service 0.
InsertTuplesAll(rows, ts) ==
    { << rows[i], IF ts[i] = "match" THEN TopHit(rows[i]) ELSE 0 >> :
        i \in { j \in 1..Len(rows) : ts[j] \in {"match", "none"} } }

\* insert_tuples = [res for res in results if res is not None]
InsertTuples(rows, ts) ==
    { << rows[i], TopHit(rows[i]) >> : i \in { j \in 1..Len(rows) : ts[j] = "match" } }

InitLinks ==
    /\ lpc = "begin"
    /\ service_ids \in { {}, TenantServices }
    /\ max_parallel \in 1..MaxParallel
    /\ semaphore = max_parallel
    /\ product_rows \in { [i \in 1..n |-> i] : n \in 0..MaxRows }
    /\ tasks = <<>>
    /\ links \in OldLinks
    /\ txlinks = links
    /\ before = links
    /\ lookups = <<>>
    /\ lres = "running"
    /\ RebuildIdle
    /\ StoreIdle
    /\ RetryIdle
    /\ ResetIdle
    /\ SearchIdle
    /\ FuseIdle
    /\ NormIdle
    /\ RunIdle
    /\ IndexIdle
    /\ LateIdle

NotLinks == << baseVars, searchVars, fuseVars, normVars, runVars, indexVars, lateVars >>

\* A statement raises: the transaction is rolled back, the except branch
\* returns False.
LinkFails ==
    /\ lpc' = "returned"
    /\ lres' = "false"
    /\ txlinks' = links
    /\ UNCHANGED << service_ids, max_parallel, semaphore, product_rows, tasks, links,
                    before, lookups >>

\* async with conn.transaction():
LinkBegin ==
    /\ lpc = "begin"
    /\ \/ /\ lpc' = "services"
          /\ txlinks' = links
          /\ UNCHANGED << service_ids, max_parallel, semaphore, product_rows, tasks, links,
                          before, lookups, lres >>
       \/ LinkFails
    /\ UNCHANGED NotLinks

\* SELECT id FROM services WHERE channel_id = $1
LinkServices ==
    /\ lpc = "services"
    /\ \/ /\ lpc' = IF service_ids # {} THEN "delete" ELSE "products"
          /\ UNCHANGED << service_ids, max_parallel, semaphore, product_rows, tasks, links,
                          txlinks, before, lookups, lres >>
       \/ LinkFails
    /\ UNCHANGED NotLinks

\* Variant: the delete is committed on its own.
LinkDeleteCommitted ==
    /\ lpc = "delete"
    /\ \/ /\ links' = { l \in links : l[2] \notin service_ids }
          /\ txlinks' = links'
          /\ lpc' = "products"
          /\ UNCHANGED << service_ids, max_parallel, semaphore, product_rows, tasks,
                          before, lookups, lres >>
       \/ LinkFails
    /\ UNCHANGED NotLinks

\* DELETE FROM products_services WHERE service_id = ANY($1::int[])
LinkDelete ==
    /\ lpc = "delete"
    /\ \/ /\ txlinks' = { l \in txlinks : l[2] \notin service_ids }
          /\ lpc' = "products"
          /\ UNCHANGED << service_ids, max_parallel, semaphore, product_rows, tasks, links,
                          before, lookups, lres >>
       \/ LinkFails
    /\ UNCHANGED NotLinks

\* SELECT ... FROM products WHERE channel_id = $1; the tasks are made and
\* gather schedules them.
LinkProducts ==
    /\ lpc = "products"
    /\ \/ /\ tasks' = [i \in 1..Len(product_rows) |-> "waiting"]
          /\ lpc' = "gather"
          /\ UNCHANGED << service_ids, max_parallel, semaphore, product_rows, links,
                          txlinks, before, lookups, lres >>
       \/ LinkFails
    /\ UNCHANGED NotLinks

\* Variant: the task goes on without a permit.
LinkAcquireUnbounded(i) ==
    /\ lpc = "gather"
    /\ tasks[i] = "waiting"
    /\ tasks' = [tasks EXCEPT ![i] = "running"]
    /\ lookups' = Append(lookups, i)
    /\ UNCHANGED << lpc, service_ids, max_parallel, semaphore, product_rows, links,
                    txlinks, before, lres >>
    /\ UNCHANGED NotLinks

\* async with semaphore: (entered); the lookup is called
LinkAcquire(i) ==
    /\ lpc = "gather"
    /\ tasks[i] = "waiting"
    /\ semaphore > 0
    /\ semaphore' = semaphore - 1
    /\ tasks' = [tasks EXCEPT ![i] = "running"]
    /\ lookups' = Append(lookups, i)
    /\ UNCHANGED << lpc, service_ids, max_parallel, product_rows, links, txlinks,
                    before, lres >>
    /\ UNCHANGED NotLinks

\* The lookup returns or raises (the exception is logged); the task returns
\* its pair or None and the permit is released.
LinkFinish(i) ==
    /\ lpc = "gather"
    /\ tasks[i] = "running"
    /\ \E o \in LookupOutcomes : tasks' = [tasks EXCEPT ![i] = o]
    /\ semaphore' = semaphore + 1
    /\ UNCHANGED << lpc, service_ids, max_parallel, product_rows, links, txlinks,
                    before, lookups, lres >>
    /\ UNCHANGED NotLinks

\* results = await asyncio.gather(*tasks), every task done
LinkGathered ==
    /\ lpc = "gather"
    /\ \A i \in 1..Len(tasks) : Finished(tasks[i])
    /\ lpc' = IF InsertTuples(product_rows, tasks) # {} THEN "insert" ELSE "commit"
    /\ UNCHANGED << service_ids, max_parallel, semaphore, product_rows, tasks, links,
                    txlinks, before, lookups, lres >>
    /\ UNCHANGED NotLinks

\* INSERT INTO products_services (article_id, service_id) VALUES ($1, $2)
LinkInsert ==
    /\ lpc = "insert"
    /\ \/ /\ txlinks' = txlinks \cup InsertTuples(product_rows, tasks)
          /\ lpc' = "commit"
          /\ UNCHANGED << service_ids, max_parallel, semaphore, product_rows, tasks, links,
                          before, lookups, lres >>
       \/ LinkFails
    /\ UNCHANGED NotLinks

\* The transaction block is left: commit, return True.
LinkCommit ==
    /\ lpc = "commit"
    /\ \/ /\ links' = txlinks
          /\ lres' = "true"
          /\ lpc' = "returned"
          /\ UNCHANGED << service_ids, max_parallel, semaphore, product_rows, tasks,
                          txlinks, before, lookups >>
       \/ LinkFails
    /\ UNCHANGED NotLinks

LinkTask == \E i \in 1..Len(tasks) : LinkAcquire(i) \/ LinkFinish(i)

NextLinks ==
    \/ LinkBegin
    \/ LinkServices
    \/ LinkDelete
    \/ LinkProducts
    \/ LinkTask
    \/ LinkGathered
    \/ LinkInsert
    \/ LinkCommit

SpecLinks == InitLinks /\ [][NextLinks]_vars

\* The event loop runs every task that can run, and every statement and
\* lookup ends (each client has its timeout).
SpecLinksFair == SpecLinks /\ WF_vars(NextLinks)

\* ------------------------------------- the index check before the rebuild
\* update_products_services from the connection to the opening of the
\* transaction: _check_and_fix_products_indexes(conn), then
\* conn.transaction(). A statement succeeds or raises; bt_index_check passes
\* or fails as the index is.
PrimarySuspect == "public.products_article_key"
OtherIndex == "public.products_pkey"
Statement(stmt, on, ok) == [stmt |-> stmt, on |-> on, ok |-> ok]

InitIndex ==
    /\ ipc = "amcheck"
    /\ primary_exists \in BOOLEAN
    /\ btree_rows \in { <<>>, << OtherIndex >>, << PrimarySuspect, OtherIndex >>,
                        << OtherIndex, PrimarySuspect >> }
    /\ suspects = <<>>
    /\ bad = <<>>
    /\ still_bad = <<>>
    /\ ipos = 1
    /\ sql = <<>>
    /\ ires = "running"
    /\ RebuildIdle
    /\ StoreIdle
    /\ RetryIdle
    /\ ResetIdle
    /\ SearchIdle
    /\ FuseIdle
    /\ NormIdle
    /\ RunIdle
    /\ LinkIdle
    /\ LateIdle

NotIndex == << baseVars, searchVars, fuseVars, normVars, runVars, linkVars, lateVars >>

\* An exception leaves _check_and_fix_products_indexes: the except branch of
\* update_products_services returns False.
IdxRaises(stmt, on) ==
    /\ sql' = Append(sql, Statement(stmt, on, FALSE))
    /\ ipc' = "returned"
    /\ ires' = "false"
    /\ UNCHANGED << primary_exists, btree_rows, suspects, bad, still_bad, ipos >>

\* _try_enable_amcheck: without amcheck the check is skipped
IdxAmcheck ==
    /\ ipc = "amcheck"
    /\ \E ok \in BOOLEAN :
         /\ sql' = Append(sql, Statement("create_extension", "amcheck", ok))
         /\ ipc' = IF ok THEN "exists" ELSE "begin"
    /\ UNCHANGED << primary_exists, btree_rows, suspects, bad, still_bad, ipos, ires >>
    /\ UNCHANGED NotIndex

\* if await _index_exists(conn, primary_suspect): suspects.append(...)
IdxExists ==
    /\ ipc = "exists"
    /\ \/ /\ sql' = Append(sql, Statement("to_regclass", PrimarySuspect, TRUE))
          /\ suspects' = IF primary_exists THEN << PrimarySuspect >> ELSE <<>>
          /\ ipc' = "list"
          /\ UNCHANGED << primary_exists, btree_rows, bad, still_bad, ipos, ires >>
       \/ IdxRaises("to_regclass", PrimarySuspect)
    /\ UNCHANGED NotIndex

\* rows = await conn.fetch(...); the rows not yet in suspects are appended
IdxList ==
    /\ ipc = "list"
    /\ \/ /\ sql' = Append(sql, Statement("list_btree", "public.products", TRUE))
          /\ suspects' = suspects \o SelectSeq(btree_rows,
                                       LAMBDA r : \A i \in 1..Len(suspects) : suspects[i] # r)
          /\ ipc' = IF suspects' = <<>> THEN "begin" ELSE "check"
          /\ UNCHANGED << primary_exists, btree_rows, bad, still_bad, ipos, ires >>
       \/ IdxRaises("list_btree", "public.products")
    /\ UNCHANGED NotIndex

\* for idx in suspects: ok, err = await _btree_index_check(conn, idx)
IdxCheck ==
    /\ ipc = "check"
    /\ \E ok \in BOOLEAN :
         /\ sql' = Append(sql, Statement("bt_index_check", suspects[ipos], ok))
         /\ bad' = IF ok THEN bad ELSE Append(bad, suspects[ipos])
         /\ IF ipos < Len(suspects)
            THEN ipos' = ipos + 1 /\ UNCHANGED ipc
            ELSE ipos' = 1 /\ ipc' = IF bad' = <<>> THEN "begin" ELSE "reindex"
    /\ UNCHANGED << primary_exists, btree_rows, suspects, still_bad, ires >>
    /\ UNCHANGED NotIndex

\* for idx, _ in bad: try: await _reindex_index(conn, idx) except: log
IdxReindex ==
    /\ ipc = "reindex"
    /\ \E ok \in BOOLEAN : sql' = Append(sql, Statement("reindex_index", bad[ipos], ok))
    /\ IF ipos < Len(bad)
       THEN ipos' = ipos + 1 /\ UNCHANGED ipc
       ELSE ipos' = 1 /\ ipc' = "recheck"
    /\ UNCHANGED << primary_exists, btree_rows, suspects, bad, still_bad, ires >>
    /\ UNCHANGED NotIndex

\* Variant: the table is reindexed after every targeted repair.
IdxRecheckThenTable ==
    /\ ipc = "recheck"
    /\ \E ok \in BOOLEAN :
         /\ sql' = Append(sql, Statement("bt_index_check", bad[ipos], ok))
         /\ still_bad' = IF ok THEN still_bad ELSE Append(still_bad, bad[ipos])
         /\ IF ipos < Len(bad)
            THEN ipos' = ipos + 1 /\ UNCHANGED ipc
            ELSE ipos' = 1 /\ ipc' = "table"
    /\ UNCHANGED << primary_exists, btree_rows, suspects, bad, ires >>
    /\ UNCHANGED NotIndex

\* for idx, _ in bad: ok, err = await _btree_index_check(conn, idx);
\* if still_bad: ...
IdxRecheck ==
    /\ ipc = "recheck"
    /\ \E ok \in BOOLEAN :
         /\ sql' = Append(sql, Statement("bt_index_check", bad[ipos], ok))
         /\ still_bad' = IF ok THEN still_bad ELSE Append(still_bad, bad[ipos])
         /\ IF ipos < Len(bad)
            THEN ipos' = ipos + 1 /\ UNCHANGED ipc
            ELSE ipos' = 1 /\ ipc' = IF still_bad' # <<>> THEN "table" ELSE "analyze"
    /\ UNCHANGED << primary_exists, btree_rows, suspects, bad, ires >>
    /\ UNCHANGED NotIndex

\* await _reindex_table(conn, "public.products"): not inside a try
IdxTable ==
    /\ ipc = "table"
    /\ \/ /\ sql' = Append(sql, Statement("reindex_table", "public.products", TRUE))
          /\ ipc' = "analyze"
          /\ UNCHANGED << primary_exists, btree_rows, suspects, bad, still_bad, ipos, ires >>
       \/ IdxRaises("reindex_table", "public.products")
    /\ UNCHANGED NotIndex

\* try: ANALYZE public.products except: log
IdxAnalyze ==
    /\ ipc = "analyze"
    /\ \E ok \in BOOLEAN : sql' = Append(sql, Statement("analyze", "public.products", ok))
    /\ ipc' = "begin"
    /\ UNCHANGED << primary_exists, btree_rows, suspects, bad, still_bad, ipos, ires >>
    /\ UNCHANGED NotIndex

\* async with conn.transaction(): the business transaction is entered
IdxBegin ==
    /\ ipc = "begin"
    /\ sql' = Append(sql, Statement("begin", "transaction", TRUE))
    /\ ipc' = "returned"
    /\ ires' = "started"
    /\ UNCHANGED << primary_exists, btree_rows, suspects, bad, still_bad, ipos >>
    /\ UNCHANGED NotIndex

NextIndex ==
    \/ IdxAmcheck
    \/ IdxExists
    \/ IdxList
    \/ IdxCheck
    \/ IdxReindex
    \/ IdxRecheck
    \/ IdxTable
    \/ IdxAnalyze
    \/ IdxBegin

SpecIndex == InitIndex /\ [][NextIndex]_vars

\* -------------------------------------------------- embed_texts, call by call
\* embed_texts(texts, model): the filter, then retry_request around
\* openai_client.embeddings.create, each attempt one request with the whole
\* filtered list; the provider answers with one embedding per input, in
\* input order, or the request raises.
MaxTexts == 3
TextSet == { Null, <<>>, << " ", "\n" >>, << "a" >>, << "b", "\n", "c" >> }

NotEmbed == << baseVars, searchVars, fuseVars, normVars, runVars, linkVars, indexVars, raceVars, auxVars, remindVars >>

InitEmbed ==
    /\ texts \in SeqsUpTo(TextSet, MaxTexts)
    /\ epc = "filter"
    /\ eAttempt = 1
    /\ provider = <<>>
    /\ vectors = <<>>
    /\ oAttempt = 0
    /\ storeq = <<>>
    /\ RebuildIdle
    /\ StoreIdle
    /\ RetryIdle
    /\ ResetIdle
    /\ SearchIdle
    /\ FuseIdle
    /\ NormIdle
    /\ RunIdle
    /\ LinkIdle
    /\ IndexIdle
    /\ RaceIdle
    /\ AuxIdle
    /\ RemindIdle

\* texts = [...]; if not texts: return []
EmbedFilter ==
    /\ epc = "filter"
    /\ IF EmbedInput(texts) = <<>>
       THEN vectors' = <<>> /\ epc' = "returned"
       ELSE vectors' = vectors /\ epc' = "call"
    /\ eAttempt' = 1
    /\ UNCHANGED << texts, provider, oAttempt, storeq >>
    /\ UNCHANGED NotEmbed

\* One attempt of retry_request(openai_client.embeddings.create, input=texts);
\* return [item.embedding for item in response.data]
EmbedRequest ==
    /\ epc = "call"
    /\ \E ok \in BOOLEAN :
         LET input == EmbedInput(texts)
             step == RetryStep(eAttempt, ok)
         IN  /\ provider' = Append(provider, [input |-> input, ok |-> ok])
             /\ CASE step = "return" ->
                       /\ vectors' = [i \in 1..Len(input) |-> DenseVector(input[i])]
                       /\ epc' = "returned"
                       /\ UNCHANGED eAttempt
                  [] step = "retry" ->
                       /\ eAttempt' = eAttempt + 1
                       /\ UNCHANGED << epc, vectors >>
                  [] step = "raise" ->
                       /\ epc' = "raised"
                       /\ UNCHANGED << eAttempt, vectors >>
    /\ UNCHANGED << texts, oAttempt, storeq >>
    /\ UNCHANGED NotEmbed

NextEmbed ==
    \/ EmbedFilter
    \/ EmbedRequest

SpecEmbed == InitEmbed /\ [][NextEmbed]_vars

\* ------------------------------------------ a search, provider call by call
\* retry_request(_logic) of retriever_product_async and of
\* retriever_product_hybrid_async, with the retry_request inside embed_texts:
\* texts is [query].
InitNested ==
    /\ \E q \in Queries \cup { << "q", "\n" >> } : texts = << q >>
    /\ epc = "logic"
    /\ eAttempt = 1
    /\ provider = <<>>
    /\ vectors = <<>>
    /\ oAttempt = 1
    /\ storeq = <<>>
    /\ RebuildIdle
    /\ StoreIdle
    /\ RetryIdle
    /\ ResetIdle
    /\ SearchIdle
    /\ FuseIdle
    /\ NormIdle
    /\ RunIdle
    /\ LinkIdle
    /\ IndexIdle
    /\ RaceIdle
    /\ AuxIdle
    /\ RemindIdle

\* An exception leaves _logic: retry_request re-raises on the last attempt,
\* else sleeps and calls _logic again.
LogicFailed ==
    IF RetryStep(oAttempt, FALSE) = "raise"
    THEN epc' = "failed" /\ UNCHANGED oAttempt
    ELSE epc' = "logic" /\ oAttempt' = oAttempt + 1

\* _logic: `if query:`
LogicStart ==
    /\ epc = "logic"
    /\ epc' = IF Truthy(texts[1]) THEN "filter" ELSE "scroll"
    /\ UNCHANGED << texts, eAttempt, provider, vectors, oAttempt, storeq >>
    /\ UNCHANGED NotEmbed

\* (await ada_embeddings([query]))[0]: the first vector, or IndexError
LogicFirstVector ==
    /\ epc = "returned"
    /\ oAttempt > 0
    /\ IF vectors = <<>>
       THEN LogicFailed
       ELSE epc' = "query" /\ UNCHANGED oAttempt
    /\ UNCHANGED << texts, eAttempt, provider, vectors, storeq >>
    /\ UNCHANGED NotEmbed

\* embed_texts raised after its last attempt
LogicEmbedRaised ==
    /\ epc = "raised"
    /\ oAttempt > 0
    /\ LogicFailed
    /\ UNCHANGED << texts, eAttempt, provider, vectors, storeq >>
    /\ UNCHANGED NotEmbed

\* await qdrant_client.query_points(...) or await qdrant_client.scroll(...)
LogicQuery ==
    /\ epc \in {"query", "scroll"}
    /\ \E ok \in BOOLEAN :
         /\ storeq' = Append(storeq, [op |-> epc, ok |-> ok])
         /\ IF ok
            THEN epc' = "done" /\ UNCHANGED oAttempt
            ELSE LogicFailed
    /\ UNCHANGED << texts, eAttempt, provider, vectors >>
    /\ UNCHANGED NotEmbed

NextNested ==
    \/ LogicStart
    \/ EmbedFilter
    \/ EmbedRequest
    \/ LogicFirstVector
    \/ LogicEmbedRaised
    \/ LogicQuery

SpecNested == InitNested /\ [][NextNested]_vars

\* ------------------------------------------ two rebuilds of one collection
\* Two calls of qdrant_create_faq_async, each started by a request to
\* update/faq, on a store that answers every call: each call takes effect or
\* is refused as the collection is at that moment. Both load the same rows,
\* one point per batch; a point tells the rebuild that wrote it (0: before).
MaxRaceBatches == 2
Rebuilds == {1, 2}
Other(p) == IF p = 1 THEN 2 ELSE 1
RacePoint(b, p) == [id |-> b, run |-> p]
RaceOld == { RacePoint(1, 0) }

NotRace == << baseVars, searchVars, fuseVars, normVars, runVars, linkVars, indexVars, embedVars, auxVars, remindVars >>

InitRace ==
    /\ racePc = [p \in Rebuilds |-> "idle"]
    /\ raceAttempt = [p \in Rebuilds |-> 1]
    /\ raceBatch = [p \in Rebuilds |-> 1]
    /\ raceResult = [p \in Rebuilds |-> "running"]
    /\ raceDocs \in 1..MaxRaceBatches
    /\ \E e \in BOOLEAN : shared = [exists |-> e, points |-> IF e THEN RaceOld ELSE {}]
    /\ RebuildIdle
    /\ StoreIdle
    /\ RetryIdle
    /\ ResetIdle
    /\ SearchIdle
    /\ FuseIdle
    /\ NormIdle
    /\ RunIdle
    /\ LinkIdle
    /\ IndexIdle
    /\ EmbedIdle
    /\ AuxIdle
    /\ RemindIdle

\* retry_request after a failed attempt of rebuild p: the next attempt, or
\* the exception leaves the rebuild.
RaceRetry(p) ==
    IF RetryStep(raceAttempt[p], FALSE) = "raise"
    THEN /\ racePc' = [racePc EXCEPT ![p] = "end"]
         /\ raceResult' = [raceResult EXCEPT ![p] = "raised"]
         /\ UNCHANGED raceAttempt
    ELSE /\ raceAttempt' = [raceAttempt EXCEPT ![p] = @ + 1]
         /\ UNCHANGED << racePc, raceResult >>

\* update_faq calls qdrant_create_faq_async: the rows are loaded
RaceStart(p) ==
    /\ racePc[p] = "idle"
    /\ racePc' = [racePc EXCEPT ![p] = "delete"]
    /\ UNCHANGED << raceAttempt, raceBatch, raceResult, raceDocs, shared >>
    /\ UNCHANGED NotRace

\* Variant: the delete leaves the collection in place.
RaceDeleteKeeps(p) ==
    /\ racePc[p] = "delete"
    /\ racePc' = [racePc EXCEPT ![p] = "create"]
    /\ UNCHANGED << raceAttempt, raceBatch, raceResult, raceDocs, shared >>
    /\ UNCHANGED NotRace

\* reset_collection: try: delete_collection except: warn
RaceDelete(p) ==
    /\ racePc[p] = "delete"
    /\ shared' = [exists |-> FALSE, points |-> {}]
    /\ racePc' = [racePc EXCEPT ![p] = "create"]
    /\ UNCHANGED << raceAttempt, raceBatch, raceResult, raceDocs >>
    /\ UNCHANGED NotRace

\* reset_collection: create_collection, refused when the collection exists
RaceCreate(p) ==
    /\ racePc[p] = "create"
    /\ IF shared.exists
       THEN /\ racePc' = [racePc EXCEPT ![p] = "end"]
            /\ raceResult' = [raceResult EXCEPT ![p] = "raised"]
            /\ UNCHANGED shared
       ELSE /\ shared' = [exists |-> TRUE, points |-> {}]
            /\ racePc' = [racePc EXCEPT ![p] = "upsert"]
            /\ UNCHANGED raceResult
    /\ UNCHANGED << raceAttempt, raceBatch, raceDocs >>
    /\ UNCHANGED NotRace

\* fill_collection_faq: one attempt of retry_request(upload_points) of the
\* batch, refused when there is no collection; after the last batch the
\* test query follows.
RaceUpsert(p) ==
    /\ racePc[p] = "upsert"
    /\ IF shared.exists
       THEN /\ shared' = [shared EXCEPT !.points =
                            { q \in @ : q.id # raceBatch[p] } \cup { RacePoint(raceBatch[p], p) }]
            /\ raceBatch' = [raceBatch EXCEPT ![p] = @ + 1]
            /\ raceAttempt' = [raceAttempt EXCEPT ![p] = 1]
            /\ racePc' = [racePc EXCEPT ![p] = IF raceBatch[p] = raceDocs THEN "check" ELSE "upsert"]
            /\ UNCHANGED raceResult
       ELSE /\ RaceRetry(p)
            /\ UNCHANGED << raceBatch, shared >>
    /\ UNCHANGED raceDocs
    /\ UNCHANGED NotRace

\* results = await retriver_hybrid_async(...); return bool(results): one
\* attempt of the query, refused when there is no collection
RaceCheck(p) ==
    /\ racePc[p] = "check"
    /\ IF shared.exists
       THEN /\ raceResult' = [raceResult EXCEPT ![p] = RebuildResult(shared.points)]
            /\ racePc' = [racePc EXCEPT ![p] = "end"]
            /\ UNCHANGED raceAttempt
       ELSE RaceRetry(p)
    /\ UNCHANGED << raceBatch, raceDocs, shared >>
    /\ UNCHANGED NotRace

RaceStep(p) ==
    \/ RaceStart(p)
    \/ RaceDelete(p)
    \/ RaceCreate(p)
    \/ RaceUpsert(p)
    \/ RaceCheck(p)

NextRace == \E p \in Rebuilds : RaceStep(p)

SpecRace == InitRace /\ [][NextRace]_vars

\* ------------------------- link rebuilds of two channels, one collection
\* update_products_services(channel_id) for two channels at once: each
\* rebuilds the auxiliary collection QDRANT_COLLECTION_TEMP from its own
\* services, runs the index check, and inside the transaction looks its
\* product up in that collection. The store and the database answer every
\* call but the index check and the commit, which may raise. Each channel
\* has one product (its article is the channel id) and two services.
Channels == {1, 2}
Peer(c) == IF c = 1 THEN 2 ELSE 1
ServicesOf(c) == { 10 * c + 1, 10 * c + 2 }
ChannelOf(s) == s \div 10
ServiceKinds == {"none", "blank", "named"}
\* The rows of `services` of the channel, and the points its rebuild writes
\* (a service with a blank name gets no point).
ServiceRows(c) == IF svcKind[c] = "none" THEN {} ELSE ServicesOf(c)
ServicePoints(c) == IF svcKind[c] = "named" THEN ServicesOf(c) ELSE {}
OldLinksOf(c) == { << c, 10 * c + 2 >> }
\* The points a query with the channel's filter can return, and the first.
ChannelHits(pts, c) == { q \in pts : ChannelOf(q) = c }
Top(pts) == CHOOSE q \in pts : \A t \in pts : q <= t

NotAux == << baseVars, searchVars, fuseVars, normVars, runVars, linkVars, indexVars, embedVars, raceVars, remindVars >>

InitAux ==
    /\ apc = [c \in Channels |-> "idle"]
    /\ aaux = [c \in Channels |-> "none"]
    /\ aatt = [c \in Channels |-> 1]
    /\ afound = [c \in Channels |-> {}]
    /\ aseen = [c \in Channels |-> << >>]
    /\ aret = [c \in Channels |-> "running"]
    /\ alog = [c \in Channels |-> << >>]
    /\ svcKind \in [Channels -> ServiceKinds]
    /\ \E e \in BOOLEAN : acoll = [exists |-> e, points |-> IF e THEN { Top(ServicesOf(1)) } ELSE {}]
    /\ alinks = UNION { OldLinksOf(c) : c \in Channels }
    /\ RebuildIdle
    /\ StoreIdle
    /\ RetryIdle
    /\ ResetIdle
    /\ SearchIdle
    /\ FuseIdle
    /\ NormIdle
    /\ RunIdle
    /\ LinkIdle
    /\ IndexIdle
    /\ EmbedIdle
    /\ RaceIdle
    /\ RemindIdle

AuxGoes(c, to, stage) ==
    /\ apc' = [apc EXCEPT ![c] = to]
    /\ alog' = [alog EXCEPT ![c] = Append(@, stage)]

\* An exception leaves qdrant_create_services_async, which is called
\* outside the try of update_products_services.
AuxRaises(c, stage) ==
    /\ AuxGoes(c, "end", stage)
    /\ aret' = [aret EXCEPT ![c] = "raised"]

\* retry_request after a failed attempt
AuxRetry(c, stage) ==
    IF RetryStep(aatt[c], FALSE) = "raise"
    THEN AuxRaises(c, stage) /\ UNCHANGED aatt
    ELSE /\ aatt' = [aatt EXCEPT ![c] = @ + 1]
         /\ UNCHANGED << apc, aret, alog >>

\* update_products_services(channel_id) is called
AuxStart(c) ==
    /\ apc[c] = "idle"
    /\ AuxGoes(c, "load", "called")
    /\ UNCHANGED << aaux, aatt, afound, aseen, aret, svcKind, acoll, alinks >>
    /\ UNCHANGED NotAux

\* Variant: a rebuild that returned false ends the call with False.
AuxLoadStops(c) ==
    /\ apc[c] = "load"
    /\ IF ServiceRows(c) = {}
       THEN /\ aaux' = [aaux EXCEPT ![c] = "false"]
            /\ aret' = [aret EXCEPT ![c] = "false"]
            /\ AuxGoes(c, "end", "rebuilt")
       ELSE /\ AuxGoes(c, "delete", "loaded")
            /\ UNCHANGED << aaux, aret >>
    /\ UNCHANGED << aatt, afound, aseen, svcKind, acoll, alinks >>
    /\ UNCHANGED NotAux

\* docs = await services_load_from_postgres(channel_id); if not docs: return False
AuxLoad(c) ==
    /\ apc[c] = "load"
    /\ IF ServiceRows(c) = {}
       THEN /\ aaux' = [aaux EXCEPT ![c] = "false"]
            /\ AuxGoes(c, "index", "rebuilt")
       ELSE /\ AuxGoes(c, "delete", "loaded")
            /\ UNCHANGED aaux
    /\ UNCHANGED << aatt, afound, aseen, aret, svcKind, acoll, alinks >>
    /\ UNCHANGED NotAux

\* reset_collection: delete_collection
AuxDelete(c) ==
    /\ apc[c] = "delete"
    /\ acoll' = [exists |-> FALSE, points |-> {}]
    /\ AuxGoes(c, "create", "deleted")
    /\ UNCHANGED << aaux, aatt, afound, aseen, aret, svcKind, alinks >>
    /\ UNCHANGED NotAux

\* reset_collection: create_collection, refused when the collection exists
AuxCreate(c) ==
    /\ apc[c] = "create"
    /\ IF acoll.exists
       THEN AuxRaises(c, "create refused") /\ UNCHANGED acoll
       ELSE /\ acoll' = [exists |-> TRUE, points |-> {}]
            /\ AuxGoes(c, "fill", "created")
            /\ UNCHANGED aret
    /\ UNCHANGED << aaux, aatt, afound, aseen, svcKind, alinks >>
    /\ UNCHANGED NotAux

\* fill_collection_services: the batch is skipped when no name is left,
\* else one attempt of retry_request(upload_points)
AuxFill(c) ==
    /\ apc[c] = "fill"
    /\ IF ServicePoints(c) = {} \/ acoll.exists
       THEN /\ acoll' = [acoll EXCEPT !.points = @ \cup ServicePoints(c)]
            /\ aatt' = [aatt EXCEPT ![c] = 1]
            /\ AuxGoes(c, "check", "filled")
            /\ UNCHANGED aret
       ELSE /\ AuxRetry(c, "upsert refused")
            /\ UNCHANGED acoll
    /\ UNCHANGED << aaux, afound, aseen, svcKind, alinks >>
    /\ UNCHANGED NotAux

\* results = await retriver_hybrid_async("Массаж", collection_name,
\* channel_id); return bool(results); then `if not result: logger.error`
AuxCheck(c) ==
    /\ apc[c] = "check"
    /\ IF acoll.exists
       THEN /\ aaux' = [aaux EXCEPT ![c] =
                          RebuildResult(ChannelHits(acoll.points, c))]
            /\ aatt' = [aatt EXCEPT ![c] = 1]
            /\ AuxGoes(c, "index", "rebuilt")
            /\ UNCHANGED aret
       ELSE /\ AuxRetry(c, "query refused")
            /\ UNCHANGED aaux
    /\ UNCHANGED << afound, aseen, svcKind, acoll, alinks >>
    /\ UNCHANGED NotAux

\* await _check_and_fix_products_indexes(conn): returns, or raises into
\* `except Exception: return False`
AuxIndex(c) ==
    /\ apc[c] = "index"
    /\ \/ /\ AuxGoes(c, "begin", "index checked")
          /\ UNCHANGED aret
       \/ /\ AuxGoes(c, "end", "index check raised")
          /\ aret' = [aret EXCEPT ![c] = "false"]
    /\ UNCHANGED << aaux, aatt, afound, aseen, svcKind, acoll, alinks >>
    /\ UNCHANGED NotAux

\* async with conn.transaction(): the services, the delete, the products
AuxBegin(c) ==
    /\ apc[c] = "begin"
    /\ AuxGoes(c, "lookup", "begun")
    /\ UNCHANGED << aaux, aatt, afound, aseen, aret, svcKind, acoll, alinks >>
    /\ UNCHANGED NotAux

\* _fetch_service_id: retriver_hybrid_async(product_name,
\* QDRANT_COLLECTION_TEMP, channel_id, limit=1); an exception (no
\* collection) is caught and gives None, as does an empty result
AuxLookup(c) ==
    /\ apc[c] = "lookup"
    /\ aseen' = [aseen EXCEPT ![c] = << acoll >>]
    /\ afound' = [afound EXCEPT ![c] =
                    IF acoll.exists /\ ChannelHits(acoll.points, c) # {}
                    THEN { << c, Top(ChannelHits(acoll.points, c)) >> }
                    ELSE {}]
    /\ AuxGoes(c, "commit", "looked up")
    /\ UNCHANGED << aaux, aatt, aret, svcKind, acoll, alinks >>
    /\ UNCHANGED NotAux

\* The transaction is left: the delete and the insert are committed and
\* True is returned, or a statement has raised, all is rolled back and
\* False is returned.
AuxCommit(c) ==
    /\ apc[c] = "commit"
    /\ \/ /\ alinks' = { l \in alinks : l[2] \notin ServiceRows(c) } \cup afound[c]
          /\ aret' = [aret EXCEPT ![c] = "true"]
          /\ AuxGoes(c, "end", "committed")
       \/ /\ aret' = [aret EXCEPT ![c] = "false"]
          /\ AuxGoes(c, "end", "rolled back")
          /\ UNCHANGED alinks
    /\ UNCHANGED << aaux, aatt, afound, aseen, svcKind, acoll >>
    /\ UNCHANGED NotAux

AuxStep(c) ==
    \/ AuxStart(c)
    \/ AuxLoad(c)
    \/ AuxDelete(c)
    \/ AuxCreate(c)
    \/ AuxFill(c)
    \/ AuxCheck(c)
    \/ AuxIndex(c)
    \/ AuxBegin(c)
    \/ AuxLookup(c)
    \/ AuxCommit(c)

NextAux == \E c \in Channels : AuxStep(c)

SpecAux == InitAux /\ [][NextAux]_vars

\* ---------------------------------------------------------------------
\* Reminders: routes/reminders.py reminders_check against routes/agent.py
\* run_sync, for one thread. Time is counted in whole minutes.
\* ---------------------------------------------------------------------
MaxClock == 2
MaxSent == 2

\* _parse_iso gives None for a timestamp that was never written.
NoTs == 0 - 1

\* Request bodies of reminders_check: every pair of values of two settings
\* occurs in one of them.
Bodies == { [timeout_minutes |-> 1, cooldown_minutes |-> 1, reminder_limit |-> 2], [timeout_minutes |-> 1, cooldown_minutes |-> 2, reminder_limit |-> 1], [timeout_minutes |-> 2, cooldown_minutes |-> 1, reminder_limit |-> 1], [timeout_minutes |-> 2, cooldown_minutes |-> 2, reminder_limit |-> 2] }
\* The dialog_state of an agent response: a state name, "new", or None when
\* the response carries none.
DialogStates == { "new", "None", "chat" }

\* `delivery` of a run_sync call: int(params.user_id) may be 0 and
\* str(params.access_token) may be empty.
Deliveries == { [delivery_user_id |-> 0, delivery_access_token |-> "tok"], [delivery_user_id |-> 7, delivery_access_token |-> ""], [delivery_user_id |-> 7, delivery_access_token |-> "tok"] }
NoDelivery == [delivery_user_id |-> 0, delivery_access_token |-> ""]

\* Metadata of a thread as _create_thread leaves it: empty timestamps and
\* dialog state, reminded 0 and the delivery of the creating request.
NewThread(delivery) == [last_user_ts |-> NoTs, last_assistant_ts |-> NoTs, last_reminder_ts |-> NoTs, last_dialog_state |-> "", reminded |-> 0] @@ delivery

\* The locals of a check that is not at a thread.
NoRead == NewThread(NoDelivery)

\* Eligible without the wait for timeout_minutes.
EligibleAtOnce(m, n) ==
    /\ m.last_dialog_state \notin { "new", "None" }
    /\ ~(m.reminded >= reminder_limit)
    /\ m.last_assistant_ts # NoTs
    /\ ~(m.last_user_ts # NoTs /\ m.last_user_ts > m.last_assistant_ts)
    /\ ~(m.last_reminder_ts # NoTs /\ n - m.last_reminder_ts < cooldown_minutes)
    /\ ~(m.delivery_user_id = 0 \/ m.delivery_access_token = "")

\* The conditions of reminders_check under which a thread is not skipped,
\* in the order of the code.
Eligible(m, n) ==
    /\ m.last_dialog_state \notin { "new", "None" }
    /\ ~(m.reminded >= reminder_limit)
    /\ m.last_assistant_ts # NoTs
    /\ ~(m.last_user_ts # NoTs /\ m.last_user_ts > m.last_assistant_ts)
    /\ ~(n - m.last_assistant_ts < timeout_minutes)
    /\ ~(m.last_reminder_ts # NoTs /\ n - m.last_reminder_ts < cooldown_minutes)
    /\ ~(m.delivery_user_id = 0 \/ m.delivery_access_token = "")

NotRemind == << baseVars, searchVars, fuseVars, normVars, runVars, linkVars, indexVars, embedVars, raceVars, auxVars >>

InitRemind ==
    /\ clock = 0
    /\ \E delivery \in Deliveries : md = NewThread(delivery)
    /\ \E body \in Bodies :
         /\ timeout_minutes = body.timeout_minutes
         /\ cooldown_minutes = body.cooldown_minutes
         /\ reminder_limit = body.reminder_limit
    /\ kpc = "idle"
    /\ cnow = 0
    /\ snap = NoRead
    /\ gpc = "idle"
    /\ gdelivery = NoDelivery
    /\ delivered = << >>
    /\ sinceReply = 0
    /\ RebuildIdle
    /\ StoreIdle
    /\ RetryIdle
    /\ ResetIdle
    /\ SearchIdle
    /\ FuseIdle
    /\ NormIdle
    /\ RunIdle
    /\ LinkIdle
    /\ IndexIdle
    /\ EmbedIdle
    /\ RaceIdle
    /\ AuxIdle

\* A minute passes.
Tick ==
    /\ clock < MaxClock
    /\ clock' = clock + 1
    /\ UNCHANGED << md, timeout_minutes, cooldown_minutes, reminder_limit, kpc, cnow, snap, gpc, gdelivery, delivered, sinceReply >>
    /\ UNCHANGED NotRemind

\* client.threads.update(thread_id, metadata=patch): the keys of the patch
\* replace those of the stored metadata.
Patched(m, patch) == [k \in DOMAIN m |-> IF k \in DOMAIN patch THEN patch[k] ELSE m[k]]

\* run_sync up to runs.create: the user's message is recorded with
\* _patch_user_meta, whose failure is only logged.
AgentUser ==
    /\ gpc = "idle"
    /\ \E delivery \in Deliveries, ok \in BOOLEAN :
         /\ gdelivery' = delivery
         /\ md' = IF ok THEN Patched(md, [last_user_ts |-> clock] @@ delivery) ELSE md
    /\ gpc' = "run"
    /\ UNCHANGED << clock, timeout_minutes, cooldown_minutes, reminder_limit, kpc, cnow, snap, delivered, sinceReply >>
    /\ UNCHANGED NotRemind

\* runs.join returned the assistant's reply: _patch_assistant_meta records
\* it and resets `reminded`; its failure is only logged.
AgentReply ==
    /\ gpc = "run"
    /\ \E ds \in DialogStates, ok \in BOOLEAN :
         md' = IF ok THEN Patched(md, [last_assistant_ts |-> clock, last_dialog_state |-> ds, reminded |-> 0] @@ gdelivery) ELSE md
    /\ sinceReply' = 0
    /\ gpc' = "idle"
    /\ gdelivery' = NoDelivery
    /\ UNCHANGED << clock, timeout_minutes, cooldown_minutes, reminder_limit, kpc, cnow, snap, delivered >>
    /\ UNCHANGED NotRemind

\* runs.create or runs.join raised: 503, nothing more is recorded.
AgentRaises ==
    /\ gpc = "run"
    /\ gpc' = "idle"
    /\ gdelivery' = NoDelivery
    /\ UNCHANGED << clock, md, timeout_minutes, cooldown_minutes, reminder_limit, kpc, cnow, snap, delivered, sinceReply >>
    /\ UNCHANGED NotRemind

\* The check is done with the thread: its locals are dropped.
CheckLeaves ==
    /\ kpc' = "idle"
    /\ cnow' = 0
    /\ snap' = NoRead

\* reminders_check: now = datetime.now(timezone.utc).
CheckStart ==
    /\ kpc = "idle"
    /\ Len(delivered) < MaxSent
    /\ cnow' = clock
    /\ kpc' = "search"
    /\ UNCHANGED << clock, md, timeout_minutes, cooldown_minutes, reminder_limit, snap, gpc, gdelivery, delivered, sinceReply >>
    /\ UNCHANGED NotRemind

\* threads.search returns the metadata; the thread is skipped (continue)
\* unless every condition holds.
CheckSearch ==
    /\ kpc = "search"
    /\ IF Eligible(md, cnow)
       THEN kpc' = "generate" /\ snap' = md /\ cnow' = cnow
       ELSE CheckLeaves
    /\ UNCHANGED << clock, md, timeout_minutes, cooldown_minutes, reminder_limit, gpc, gdelivery, delivered, sinceReply >>
    /\ UNCHANGED NotRemind

\* get_state, runs.wait on agent_zena_redialog and the reminder text: a
\* failure or an empty result skips the thread.
CheckGenerate ==
    /\ kpc = "generate"
    /\ \E ok \in BOOLEAN :
         IF ok THEN kpc' = "send" /\ UNCHANGED << cnow, snap >> ELSE CheckLeaves
    /\ UNCHANGED << clock, md, timeout_minutes, cooldown_minutes, reminder_limit, gpc, gdelivery, delivered, sinceReply >>
    /\ UNCHANGED NotRemind

\* sent_message_to_history: delivered, or raised and the thread is skipped.
CheckSend ==
    /\ kpc = "send"
    /\ \E ok \in BOOLEAN :
         IF ok
         THEN /\ delivered' = Append(delivered, clock)
              /\ sinceReply' = sinceReply + 1
              /\ kpc' = "patch"
              /\ UNCHANGED << cnow, snap >>
         ELSE /\ CheckLeaves
              /\ UNCHANGED << delivered, sinceReply >>
    /\ UNCHANGED << clock, md, timeout_minutes, cooldown_minutes, reminder_limit, gpc, gdelivery >>
    /\ UNCHANGED NotRemind

\* reminded += 1 and _patch_thread_metadata with last_reminder_ts, reminded
\* and the delivery read earlier; its failure is only logged.
CheckPatch ==
    /\ kpc = "patch"
    /\ \E ok \in BOOLEAN :
         md' = IF ok THEN Patched(md, [last_reminder_ts |-> clock, reminded |-> snap.reminded + 1, delivery_user_id |-> snap.delivery_user_id, delivery_access_token |-> snap.delivery_access_token]) ELSE md
    /\ CheckLeaves
    /\ UNCHANGED << clock, timeout_minutes, cooldown_minutes, reminder_limit, gpc, gdelivery, delivered, sinceReply >>
    /\ UNCHANGED NotRemind

NextRemind ==
    \/ Tick
    \/ AgentUser
    \/ AgentReply
    \/ AgentRaises
    \/ CheckStart
    \/ CheckSearch
    \/ CheckGenerate
    \/ CheckSend
    \/ CheckPatch

SpecRemind == InitRemind /\ [][NextRemind]_vars

\* ------------------------------------------------------------ properties
\* A text with a character that is no whitespace (NULL has none to look at).
NonBlank(t) == t # Null /\ \E i \in 1..Len(t) : t[i] \notin Whitespace
Blank(t) == t # Null /\ \A i \in 1..Len(t) : t[i] \in Whitespace
AllBlank(batch) == \A i \in 1..Len(batch) : Blank(batch[i].text)
BatchOps == {"sparse", "dense", "upsert"}
Loaded == <<"load", 0>> \in done

RECURSIVE Flatten(_)
Flatten(ss) == IF ss = <<>> THEN <<>> ELSE Head(ss) \o Flatten(Tail(ss))

\* The fill loop has run through every batch.
FillComplete == <<"create", 0>> \in done /\ bidx = Len(batches) + 1

\* C1 (as claimed): once the upsert of a batch has failed on all Retries
\* attempts, the rebuild has stopped and returned false to its caller.
C1_ExhaustedUpsertReturnsFalse ==
    exhausted # 0 => (pc = "end" /\ result = "false")

\* C2: when the upsert of batch k has failed on all retry attempts the
\* rebuild has stopped, every record indexed by batches 1..k-1 still has its
\* point in the collection, and nothing was embedded or upserted for a batch
\* after k.
C2_AbortKeepsEarlierBatches ==
    exhausted # 0 =>
        /\ pc = "end"
        /\ \A b \in 1..(exhausted - 1) : \A i \in 1..Len(batches[b]) :
              NonBlank(batches[b][i].text) =>
                  \E q \in collPoints : q.run = 1 /\ q.id = batches[b][i].id
        /\ \A b \in (exhausted + 1)..Len(batches) : \A op \in BatchOps :
              <<op, b>> \notin issued
        /\ <<"query", 0>> \notin issued

C2_Witness ==
    /\ exhausted = 2
    /\ \E q \in collPoints : q.run = 1

\* C3: when the source load returns no record the rebuild returns false, has
\* issued no vector-store call, and the collection is as it was.
C3_EmptyLoadTouchesNothing ==
    (Loaded /\ docs = <<>>) =>
        /\ pc = "end"
        /\ result = "false"
        /\ \A e \in issued : e[1] \notin StoreOps
        /\ collPoints = (IF collExists THEN OldPoints ELSE {})

C3_Witness ==
    /\ Loaded
    /\ docs = <<>>
    /\ collExists
    /\ result = "false"

\* C4: a vector-store call is issued only after the load has completed; the
\* create only after the delete, a text index only after the create and the
\* indexes before it, an upsert only after the create and every text index,
\* and the test query only after the upsert of every batch that has one.
C4_StageOrder ==
    /\ (\E e \in issued : e[1] \in StoreOps) => (Loaded /\ docs # <<>>)
    /\ <<"create", 0>> \in issued => <<"delete", 0>> \in issued
    /\ \A i \in 1..Len(TextIndexFields(kind)) :
          <<"index", i>> \in issued =>
              /\ <<"create", 0>> \in done
              /\ \A j \in 1..(i - 1) : <<"index", j>> \in done
    /\ \A b \in 1..Len(batches) :
          <<"upsert", b>> \in issued =>
              /\ <<"create", 0>> \in done
              /\ \A i \in 1..Len(TextIndexFields(kind)) : <<"index", i>> \in done
    /\ <<"query", 0>> \in issued =>
          \A b \in 1..Len(batches) :
              (\E i \in 1..Len(batches[b]) : NonBlank(batches[b][i].text))
                  => <<"upsert", b>> \in done

C4_Witness ==
    /\ kind = "products"
    /\ <<"query", 0>> \in done
    /\ <<"upsert", 2>> \in done
    /\ <<"delete", 0>> \in done

\* C5: the batches are the loaded records cut in load order into runs of at
\* most BatchSize, none empty, and a batch is embedded or upserted only when
\* the batch before it is finished (upserted, or skipped as blank).
C5_SequentialBatches ==
    /\ Flatten(batches) = docs
    /\ \A b \in 1..Len(batches) : Len(batches[b]) \in 1..BatchSize
    /\ \A b \in 2..Len(batches) : \A op \in BatchOps :
          <<op, b>> \in issued =>
              \/ <<"upsert", b - 1>> \in done
              \/ AllBlank(batches[b - 1]) /\ <<"sparse", b - 1>> \notin issued

C5_Witness ==
    /\ Len(batches) = 2
    /\ <<"upsert", 1>> \in done
    /\ <<"upsert", 2>> \in done

\* C6: at point construction the filtered records, the dense vectors and the
\* sparse vectors are equally many; point i has the id and payload of
\* filtered record i, the dense vector of that record's text (newlines
\* replaced) and the sparse vector of that text; and the indexer's filter and
\* the dense embedder's filter keep the same records of the batch.
C6_BatchAlignment ==
    /\ pc = "build" =>
          /\ Len(ada_emb) = Len(filtered)
          /\ Len(bm25_emb) = Len(filtered)
    /\ pc \in {"build", "upsert"} =>
          \A i \in 1..Len(batches[bidx]) :
              IndexerKeeps(batches[bidx][i]) <=> EmbedKeeps(batches[bidx][i].text)
    /\ pc = "upsert" =>
          /\ Len(points) = Len(filtered)
          /\ \A i \in 1..Len(points) :
                /\ points[i].id = filtered[i].id
                /\ points[i].payload = filtered[i]
                /\ points[i].vector.ada = DenseVector(ReplaceNewline(filtered[i].text))
                /\ points[i].vector.bm25 = SparseVector(filtered[i].text)

C6_Witness ==
    /\ pc = "upsert"
    /\ Len(points) = 2
    /\ points[1].vector # points[2].vector
    /\ \E i \in 1..Len(points) : points[i].vector.ada[2] # points[i].payload.text

\* C7: no point written by the rebuild has a blank primary text, and no
\* blank text is among the records handed to the sparse or the dense embedder.
C7_NoBlankPoint ==
    /\ \A q \in collPoints : q.run = 1 => NonBlank(q.payload.text)
    /\ \A i \in 1..Len(filtered) : NonBlank(filtered[i].text)
    /\ \A i \in 1..Len(bm25_emb) : NonBlank(bm25_emb[i][2])
    /\ \A i \in 1..Len(ada_emb) : NonBlank(ada_emb[i][2])

C7_Witness ==
    /\ \E q \in collPoints : q.run = 1
    /\ \E i \in 1..Len(batches[1]) : Blank(batches[1][i].text)
    /\ <<"upsert", 1>> \in done

\* C8: a step of the fill loop at a batch whose records are all blank issues
\* no call, leaves the store alone, does not end the rebuild and moves the
\* loop to the next batch.
C8_BlankBatchSkipped ==
    [][ (pc = "batch" /\ bidx <= Len(batches) /\ AllBlank(batches[bidx])) =>
            /\ pc' = "batch"
            /\ bidx' = bidx + 1
            /\ result' = "running"
            /\ issued' = issued
            /\ done' = done
            /\ UNCHANGED storeVars ]_vars

C8_Witness ==
    /\ Len(batches) = 2
    /\ AllBlank(batches[1])
    /\ <<"upsert", 2>> \in done
    /\ \A op \in BatchOps : <<op, 1>> \notin issued

\* The last record with a non-blank text that has the id of docs[i].
LastOfId(i) ==
    \A j \in (i + 1)..Len(docs) : ~(docs[j].id = docs[i].id /\ NonBlank(docs[j].text))

\* C9: once the fill loop has run through every batch, the ids of the
\* collection's points are the ids of the loaded records with a non-blank
\* text, one point per id, carrying the last such record, all written by
\* this rebuild.
C9_CollectionIsTheLoad ==
    FillComplete =>
        /\ { q.id : q \in collPoints } =
              { docs[i].id : i \in { j \in 1..Len(docs) : NonBlank(docs[j].text) } }
        /\ \A q1 \in collPoints : \A q2 \in collPoints : q1.id = q2.id => q1 = q2
        /\ \A q \in collPoints : q.run = 1
        /\ \A i \in 1..Len(docs) :
              (NonBlank(docs[i].text) /\ LastOfId(i)) =>
                  \E q \in collPoints : q.id = docs[i].id /\ q.payload = docs[i]

C9_Witness ==
    /\ FillComplete
    /\ Len(docs) = 3
    /\ docs[1].id = docs[3].id
    /\ docs[1].text # docs[3].text
    /\ NonBlank(docs[1].text)
    /\ NonBlank(docs[3].text)
    /\ <<"delete", 0>> \in done
    /\ Cardinality(collPoints) = 1

\* C10: the rebuild returns true only when the test query succeeded with at
\* least one hit, and returns false when it succeeded with none.
C10_ResultIsSelfCheck ==
    /\ result = "true" => (<<"query", 0>> \in done /\ results # {})
    /\ (pc = "end" /\ <<"query", 0>> \in done /\ results = {}) => result = "false"

C10_Witness ==
    /\ result = "false"
    /\ <<"query", 0>> \in done
    /\ FillComplete
    /\ collPoints # {}

\* C11: the wrapper calls the function at most `retries` times; no call
\* follows a call that returned; the wrapper returns the value of the call
\* that returned; and when all `retries` calls have failed it has raised the
\* error of the last one.
C11_AtMostRetriesCalls ==
    /\ Len(trace) <= retries
    /\ \A i \in 1..(Len(trace) - 1) : trace[i] = "fail"
    /\ (trace # <<>> /\ trace[Len(trace)] = "ok") =>
          outcome = [state |-> "returned", of |-> Len(trace)]
    /\ outcome.state = "returned" => trace[outcome.of] = "ok"
    /\ (Len(trace) = retries /\ \A i \in 1..Len(trace) : trace[i] = "fail") =>
          outcome = [state |-> "raised", of |-> retries]
    /\ outcome.state = "raised" =>
          /\ outcome.of = Len(trace)
          /\ trace[outcome.of] # "ok"

C11_Witness ==
    /\ retries = 3
    /\ trace = << "fail", "fail", "fail" >>
    /\ outcome.state = "raised"

\* The bounds of the wait slept after failed attempt k.
WaitAtLeast(s) == s.wait >= Pow(backoff, s.after) * Unit
WaitBelow(s) == s.wait < (Pow(backoff, s.after) + jitter) * Unit
WaitAtMost(s) == s.wait <= (Pow(backoff, s.after) + jitter) * Unit

\* One sleep after each failed attempt but the final one.
SleepsFollowFailures ==
    /\ Len(sleeps) = (IF rpc = "call" THEN Len(trace) ELSE Len(trace) - 1)
    /\ \A k \in 1..Len(sleeps) : sleeps[k].after = k /\ trace[k] = "fail"

C13_WritesAbortOnlyAfterRetries ==
    (result = "raised" /\ err \in {"create", "upsert"}) => attempt = Retries

\* C14 (as claimed): when the source load has failed, the rebuild has issued
\* no vector-store call and has returned false to its caller.
C14_LoadFailureReturnsFalse ==
    (<<"load", 0>> \in issued /\ <<"load", 0>> \notin done) =>
        /\ \A e \in issued : e[1] \notin StoreOps
        /\ pc = "end"
        /\ result = "false"

\* C15: when the dense-embedding call of a batch has not succeeded and the
\* loop is no longer at it, the call has failed on all Retries attempts, the
\* rebuild has ended with the provider's error raised, and no upsert of that
\* batch or of a later one, nor the test query, was issued.
C15_EmbedExhaustionRaises ==
    \A b \in 1..Len(batches) :
        (/\ <<"dense", b>> \in issued
         /\ <<"dense", b>> \notin done
         /\ ~(pc = "embed" /\ bidx = b)) =>
            /\ pc = "end"
            /\ result = "raised"
            /\ err = "embed"
            /\ bidx = b
            /\ attempt = Retries
            /\ \A b2 \in b..Len(batches) : <<"upsert", b2>> \notin issued
            /\ <<"query", 0>> \notin issued

C15_Witness ==
    /\ result = "raised"
    /\ err = "embed"
    /\ bidx = 2
    /\ <<"upsert", 1>> \in done
    /\ \E q \in collPoints : q.run = 1

\* reset_collection has returned.
ResetComplete ==
    /\ <<"create", 0>> \in done
    /\ \A i \in 1..Len(TextIndexFields(kind)) : <<"index", i>> \in done

\* C16: when the delete of reset has failed, reset has not raised for it: it
\* goes on to the create, then to the text indexes in field order, and when
\* the create and every index creation have succeeded it has completed.
C16_DeleteFailureIgnored ==
    (<<"delete", 0>> \in issued /\ <<"delete", 0>> \notin done) =>
        /\ pc = "create" \/ <<"create", 0>> \in issued
        /\ err # "delete"
        /\ \A i \in 1..Len(TextIndexFields(kind)) :
              <<"index", i>> \in issued =>
                  /\ <<"create", 0>> \in done
                  /\ \A j \in 1..(i - 1) : <<"index", j>> \in done
        /\ ResetComplete =>
              /\ pc \notin {"delete", "create", "index"}
              /\ err \notin {"create", "index"}
              /\ collExists
              /\ collIndexes =
                    { TextIndexFields(kind)[i] : i \in 1..Len(TextIndexFields(kind)) }

C16_Witness ==
    /\ kind = "products"
    /\ <<"delete", 0>> \in issued
    /\ <<"delete", 0>> \notin done
    /\ ResetComplete
    /\ pc = "batch"

\* A call of reset_collection has returned.
ResetReturned == pc = StageEntry(NextStage("reset"), kind)

\* C17: on a store that answers every call, reset never raises, neither the
\* first time nor the second; when it has returned the collection exists,
\* has no point and has exactly the text indexes of the requested fields;
\* and the second call leaves the store as the first call left it.
C17_ResetTwiceAsOnce ==
    /\ result # "raised"
    /\ ResetReturned =>
          /\ collExists
          /\ collPoints = {}
          /\ collIndexes = { TextIndexFields(kind)[i] : i \in 1..Len(TextIndexFields(kind)) }
    /\ (ResetReturned /\ resetCalls = 2) => StoreState = afterFirst

C17_Witness ==
    /\ kind = "products"
    /\ ResetReturned
    /\ resetCalls = 2
    /\ Cardinality(collIndexes) = 4
    /\ afterFirst # <<>>

\* The conditions of a list argument of a Filter.
Conds(part) == part.items

\* How often condition c is in the list.
Count(lst, c) == Cardinality({ i \in 1..Len(lst) : lst[i] = c })

\* The two lists hold the same conditions, each as often.
SameConds(l1, l2) ==
    /\ Len(l1) = Len(l2)
    /\ \A i \in 1..Len(l1) : Count(l1, l1[i]) = Count(l2, l1[i])

\* A list argument given with no element, or not given.
NoneOrEmpty(lst) == lst = NoList \/ lst = <<>>
Given(lst) == IF NoneOrEmpty(lst) THEN <<>> ELSE lst

\* C18 (as claimed): make_filter returns None exactly when no channel id is
\* given and every list is absent or empty; and of a Filter it returns, each
\* of must, must_not and should is None or a list with an element.
C18_NullIffNoCriterion ==
    fn = "make_filter" =>
        /\ query_filter.none <=>
              /\ args.channel_id = <<>>
              /\ NoneOrEmpty(args.indications)
              /\ NoneOrEmpty(args.contraindications)
              /\ NoneOrEmpty(args.body_parts)
              /\ NoneOrEmpty(args.product_type)
        /\ ~query_filter.none =>
              \A part \in {query_filter.must, query_filter.must_not, query_filter.should} :
                  part.none \/ part.items # <<>>

\* C19 (as claimed): the conditions of the filter are: in must, one exact
\* match on channel_id when a channel id is given, one text match per body
\* part and per product type, and one per indication unless use_should; in
\* should, one text match per indication when use_should; in must_not, one
\* text match per contraindication; and nothing else.
C19_ConditionsAsSpecified ==
    fn = "make_filter" =>
        LET chan == IF args.channel_id # <<>>
                    THEN << MatchValue("channel_id", args.channel_id[1]) >> ELSE <<>>
            ind == TextConds("indications_key", Given(args.indications))
        IN  /\ SameConds(Conds(query_filter.must),
                         chan \o (IF args.use_should THEN <<>> ELSE ind)
                              \o TextConds("body_parts", Given(args.body_parts))
                              \o TextConds("product_type", Given(args.product_type)))
            /\ SameConds(Conds(query_filter.should),
                         IF args.use_should THEN ind ELSE <<>>)
            /\ SameConds(Conds(query_filter.must_not),
                         TextConds("contraindications_key", Given(args.contraindications)))

\* C20: no record returned by retriever_product_async or by
\* retriever_product_hybrid_async, with a query or without, has a
\* contraindications_key that text-matches one of the contraindications the
\* call was given.
C20_NoContraindicatedHit ==
    (fn \in {"retriever_product_async", "retriever_product_hybrid_async"}
        /\ ~NoneOrEmpty(args.contraindications)) =>
        \A i \in 1..Len(args.contraindications) : \A h \in hits.records :
            ~TextMatches(h.contraindications_key, args.contraindications[i])

C20_Witness ==
    /\ fn = "retriever_product_hybrid_async"
    /\ args.query = <<"q">>
    /\ args.contraindications = << <<"x">> >>
    /\ \E p \in products : TextMatches(p.contraindications_key, <<"x">>)
                             /\ p.channel_id = 1
    /\ args.channel_id = <<1>>
    /\ hits.records # {}

\* Ids ranked before p in a ranking, and the ids of a sequence.
Before(ranking, p) ==
    { ranking[i] : i \in { j \in 1..Len(ranking) :
                             \E m \in (j + 1)..Len(ranking) : ranking[m] = p } }
IdsOf(s) == { s[i] : i \in 1..Len(s) }
Passes(p) == Satisfies(qpoints[p], query_filter)

C24_PriceAndOrder ==
    npc = "done" =>
        /\ Len(cards) = Len(raw)
        /\ \A i \in 1..Len(raw) :
             LET lo == Get(raw[i].payload, "price_min", <<>>)
                 hi == Get(raw[i].payload, "price_max", <<>>)
             IN  /\ cards[i].product_id = Get(raw[i].payload, "product_id", <<>>)
                 /\ (lo = <<>> \/ hi = <<>>) => cards[i].price = <<>>
                 /\ (lo # <<>> /\ hi # <<>> /\ lo = hi) =>
                      cards[i].price = << Str(lo[1]) \o << " ", "r", "u", "b", "." >> >>
                 /\ (lo # <<>> /\ hi # <<>> /\ lo # hi) =>
                      cards[i].price =
                        << Str(lo[1]) \o << " ", "-", " " >> \o Str(hi[1])
                             \o << " ", "r", "u", "b", "." >> >>

C24_Witness ==
    /\ npc = "done"
    /\ Len(cards) = 3
    /\ cards[1].price = << << "1", "0", "0", " ", "r", "u", "b", "." >> >>
    /\ cards[2].price = << << "1", "0", "0", " ", "-", " ", "2", "0", "0", " ", "r", "u", "b", "." >> >>
    /\ cards[3].price = <<>>
    /\ raw[3].payload # <<>>
    /\ Get(raw[3].payload, "price_max", <<>>) = << 200 >>

\* A search call has ended, and none of its external calls failed.
RunEnded == fpc \in {"done", "raised"}
NoCallFailed == \A i \in 1..Len(calls) : calls[i].ok
EmbedCall(q) == [op |-> "ada_embeddings", request |-> [texts |-> << q >>], ok |-> TRUE]

\* C22: retriever_product_async given a query issues one dense embedding of
\* the query and one nearest-neighbour query on the dense space with the
\* filter and limit 5; given no query it issues no embedding call and one
\* scroll under the filter with limit 5; in both cases it returns at most 5
\* normalized records. (Stated for the calls in which no external call
\* fails.)
C22_SearchIsDenseOnly ==
    (fn = "retriever_product_async" /\ RunEnded /\ NoCallFailed) =>
        /\ fpc = "done"
        /\ Len(hits) <= 5
        /\ calls =
             IF Truthy(args.query)
             THEN << EmbedCall(args.query),
                     [op |-> "query_points",
                      request |-> [using |-> "ada-embedding", prefetch |-> <<>>,
                                   fusion |-> "none", query_filter |-> query_filter,
                                   limit |-> 5],
                      ok |-> TRUE] >>
             ELSE << [op |-> "scroll",
                      request |-> [scroll_filter |-> query_filter, limit |-> 5],
                      ok |-> TRUE] >>

\* C23: retriever_product_hybrid_async given a query embeds it into one
\* dense and one sparse query vector and issues a single fused query with
\* two prefetches of limit 12 (one per vector space), RRF fusion and final
\* limit 12; given no query it issues no embedding call and one scroll under
\* the filter with limit 12; in both cases it returns at most 12 normalized
\* records. (Stated for the calls in which no external call fails.)
C23_HybridIsOneFusedQuery ==
    (fn = "retriever_product_hybrid_async" /\ RunEnded /\ NoCallFailed) =>
        /\ fpc = "done"
        /\ Len(hits) <= 12
        /\ calls =
             IF Truthy(args.query)
             THEN << EmbedCall(args.query),
                     [op |-> "query_embed", request |-> [texts |-> << args.query >>],
                      ok |-> TRUE],
                     [op |-> "query_points",
                      request |-> [prefetch |-> << [using |-> "ada-embedding", limit |-> 12,
                                                       filter |-> NoFilter],
                                                      [using |-> "bm25", limit |-> 12,
                                                       filter |-> NoFilter] >>,
                                   fusion |-> "rrf", query_filter |-> query_filter,
                                   limit |-> 12],
                      ok |-> TRUE] >>
             ELSE << [op |-> "scroll",
                      request |-> [scroll_filter |-> query_filter, limit |-> 12],
                      ok |-> TRUE] >>

\* Lookups in flight: tasks inside `async with semaphore`.
InFlight == Cardinality({ i \in 1..Len(tasks) : tasks[i] = "running" })

\* C25: during the rebuild of products_services the number of lookups in
\* flight never exceeds max_parallel, whatever the number of products and
\* the scheduling of the tasks; and once the tasks are gathered, every
\* lookup runs and gives its permit back, also when it fails.
C25_BoundedLookups ==
    /\ [](InFlight <= max_parallel)
    /\ (lpc = "gather") ~>
          (/\ \A i \in 1..Len(tasks) : Finished(tasks[i])
           /\ semaphore = max_parallel)

C25_Witness ==
    /\ lpc = "gather"
    /\ max_parallel = 1
    /\ Len(tasks) = 3
    /\ InFlight = max_parallel
    /\ \E i \in 1..Len(tasks) : tasks[i] = "waiting"
    /\ \E i \in 1..Len(tasks) : tasks[i] = "raised"

\* What the table becomes when the call succeeds.
NewLinks ==
    { l \in before : l[2] \notin service_ids } \cup InsertTuples(product_rows, tasks)

\* C26: the delete of the stale links and the insert of the new ones are one
\* transaction: other sessions see the table as it was before the call until
\* the call has succeeded, and then with the new links in place of the stale
\* ones; when a statement after the delete fails the table is as before and
\* the call returns false.
C26_DeleteAndInsertAtomic ==
    /\ lres # "true" => links = before
    /\ lres = "true" => links = NewLinks
    /\ lpc = "returned" => lres \in {"true", "false"}

C26_Witness ==
    /\ lres = "false"
    /\ before # {}
    /\ service_ids # {}
    /\ \E l \in before : l[2] \in service_ids
    /\ \E i \in 1..Len(tasks) : tasks[i] = "match"
    /\ links = before

\* C27: one lookup is made per product row, and the links inserted are the
\* pairs (article, id of the top hit) of the products whose lookup returned a
\* match; a lookup without a match, or that raises, gives no pair and does
\* not abort the rebuild.
C27_OneLookupPerProduct ==
    /\ \A i \in 1..Len(lookups) : \A j \in 1..Len(lookups) :
         lookups[i] = lookups[j] => i = j
    /\ lpc \in {"insert", "commit"} =>
         { lookups[i] : i \in 1..Len(lookups) } = 1..Len(product_rows)
    /\ lres = "true" =>
         links \ { l \in before : l[2] \notin service_ids } =
            { << product_rows[i], TopHit(product_rows[i]) >> :
                i \in { j \in 1..Len(product_rows) : tasks[j] = "match" } }
            \ { l \in before : l[2] \notin service_ids }
    /\ (lpc = "gather" /\ \E i \in 1..Len(tasks) : tasks[i] \in {"none", "raised"}) =>
         lres = "running"

C27_Witness ==
    /\ lres = "true"
    /\ Len(product_rows) = 3
    /\ tasks = << "match", "raised", "none" >>
    /\ links = { <<7, 9>>, <<1, 1>> }

\* The repair statements issued, in order, and the indexes the first pass of
\* checks found failing.
RepairStmts == {"bt_index_check", "reindex_index", "reindex_table", "analyze"}
Repairs == SelectSeq(sql, LAMBDA e : e.stmt \in RepairStmts)
FirstFailed ==
    LET n == Len(suspects)
        firstPass == SubSeq(Repairs, 1, Min(n, Len(Repairs)))
        failed == SelectSeq(firstPass, LAMBDA e : ~e.ok)
    IN  [i \in 1..Len(failed) |-> failed[i].on]

\* The j-th repair statement is the one the escalation order puts there.
InOrder(j) ==
    LET n == Len(suspects)
        m == Len(FirstFailed)
        e == Repairs[j]
        still == \E i \in 1..m : ~Repairs[n + m + i].ok
    IN  IF j <= n THEN e.stmt = "bt_index_check" /\ e.on = suspects[j]
        ELSE IF m = 0 THEN FALSE
        ELSE IF j <= n + m THEN e.stmt = "reindex_index" /\ e.on = FirstFailed[j - n]
        ELSE IF j <= n + 2 * m THEN e.stmt = "bt_index_check" /\ e.on = FirstFailed[j - n - m]
        ELSE IF j = n + 2 * m + 1 THEN e.stmt = (IF still THEN "reindex_table" ELSE "analyze")
        ELSE IF j = n + 2 * m + 2 THEN still /\ e.stmt = "analyze"
        ELSE FALSE

\* C28: the index integrity procedure runs entirely before the business
\* transaction begins and follows the escalation order: check of every
\* suspect index, targeted reindex of exactly the indexes that failed,
\* re-check of those, reindex of the table only if one of them still fails,
\* statistics refresh last; when every index passes the first check no
\* reindex is issued.
C28_EscalationOrder ==
    /\ \A j \in 1..Len(Repairs) : InOrder(j)
    /\ \A i \in 1..Len(sql) : sql[i].stmt = "begin" => i = Len(sql)
    /\ (ires = "started" /\ Repairs # <<>>) =>
         LET n == Len(suspects)
             m == Len(FirstFailed)
         IN  /\ Len(Repairs) >= n
             /\ m = 0 => Len(Repairs) = n
             /\ m > 0 => /\ Len(Repairs) >= n + 2 * m + 1
                         /\ Repairs[Len(Repairs)].stmt = "analyze"
                         /\ (\E i \in 1..m : ~Repairs[n + m + i].ok) =>
                               Repairs[n + 2 * m + 1].stmt = "reindex_table"

C28_Witness ==
    /\ ires = "started"
    /\ Len(suspects) = 2
    /\ Len(Repairs) = 6
    /\ Repairs[3].stmt = "reindex_index"
    /\ Repairs[3].on = OtherIndex
    /\ Repairs[5].stmt = "reindex_table"
    /\ Repairs[6].stmt = "analyze"

\* C29: a failure of a reindex during the index integrity procedure (of an
\* index or of the table) is logged and does not block the business
\* transaction: the transaction is still entered afterwards.
C29_ReindexFailureDoesNotBlock ==
    (/\ ipc = "returned"
     /\ \E i \in 1..Len(sql) : sql[i].stmt \in {"reindex_index", "reindex_table"}
                                  /\ ~sql[i].ok) =>
        ires = "started"

\* The ids the finished rebuild leaves in the collection, and the ids of the
\* batches whose upsert has been issued.
FinalIds == { docs[i].id : i \in { j \in 1..Len(docs) : NonBlank(docs[j].text) } }
WrittenIds ==
    UNION { { batches[b][i].id : i \in { j \in 1..Len(batches[b]) : NonBlank(batches[b][j].text) } } :
            b \in { c \in 1..Len(batches) : <<"upsert", c>> \in issued } }
ReaderIds == { q.id : q \in collPoints }

\* C30: no lock or transaction spans a rebuild: what a concurrent reader
\* finds is the store as the calls made so far have left it. Until the
\* delete the collection is as it was; from the delete to the create it is
\* missing; from the create on it holds none of the old points and only
\* points of the batches upserted so far, so it is empty before the first
\* upsert and a strict subset of the finished collection while a batch
\* with a further id is still to be upserted.
C30_ReaderSeesRebuildInProgress ==
    LET deleted == <<"delete", 0>> \in done
        created == <<"create", 0>> \in done
    IN  /\ <<"delete", 0>> \notin issued =>
              collPoints = (IF collExists THEN OldPoints ELSE {})
        /\ (deleted /\ ~created) => (~collExists /\ collPoints = {})
        /\ (deleted /\ created) =>
              /\ collExists
              /\ \A q \in collPoints : q.run = 1
              /\ ReaderIds \subseteq WrittenIds
              /\ WrittenIds \subseteq FinalIds
              /\ WrittenIds # FinalIds => ReaderIds # FinalIds

C30_Witness ==
    /\ result = "running"
    /\ <<"delete", 0>> \in done
    /\ <<"upsert", 1>> \in done
    /\ <<"upsert", 2>> \notin issued
    /\ collPoints # {}
    /\ ReaderIds # FinalIds
    /\ ReaderIds \subseteq FinalIds

\* C37 (as claimed): a loaded record whose primary text is null is treated
\* like a blank record: it does not abort the rebuild, and the records of
\* its batch with a non-blank text have their points once the batch is
\* passed.
C37_NullTextIsSkipped ==
    /\ err # "null_text"
    /\ \A b \in 1..Len(batches) :
          (FilterRaises(batches[b]) /\ <<"create", 0>> \in done /\ bidx > b) =>
              \A i \in 1..Len(batches[b]) :
                  NonBlank(batches[b][i].text) =>
                      \E q \in collPoints : q.run = 1 /\ q.id = batches[b][i].id

\* The texts embed_texts keeps, in input order.
Kept == SelectSeq(texts, NonBlank)

\* C33: embed_texts drops every empty or whitespace-only text before the
\* provider is called; when nothing remains it returns the empty list and
\* no provider call is made; otherwise each attempt is one provider call
\* with all the kept texts in input order (newlines replaced by spaces), at
\* most Retries of them, and the list returned has one vector per kept text
\* in input order.
C33_DenseEmbedFiltersAndBatches ==
    /\ \A c \in 1..Len(provider) :
          /\ Len(provider[c].input) = Len(Kept)
          /\ \A i \in 1..Len(Kept) : provider[c].input[i] = ReplaceNewline(Kept[i])
    /\ Kept = <<>> => provider = <<>>
    /\ Len(provider) <= Retries
    /\ (epc = "call" => Len(provider) = eAttempt - 1)
    /\ (epc = "returned" /\ Kept = <<>>) => vectors = <<>>
    /\ (epc = "returned" /\ Kept # <<>>) =>
          /\ provider # <<>>
          /\ provider[Len(provider)].ok
          /\ Len(vectors) = Len(Kept)
          /\ \A i \in 1..Len(Kept) : vectors[i] = DenseVector(ReplaceNewline(Kept[i]))

C33_Witness ==
    /\ epc = "returned"
    /\ texts = << << " ", "\n" >>, << "b", "\n", "c" >>, << "a" >> >>
    /\ Len(provider) = 2
    /\ Len(vectors) = 2

\* The embed_texts calls of a provider log that used up their attempts:
\* runs of Retries failed requests, a run ending at a success or at Retries.
RECURSIVE Exhaustions(_, _)
Exhaustions(log, run) ==
    IF log = <<>> THEN 0
    ELSE IF Head(log).ok THEN Exhaustions(Tail(log), 0)
    ELSE IF run + 1 = Retries THEN 1 + Exhaustions(Tail(log), 0)
    ELSE Exhaustions(Tail(log), run + 1)

\* C40: one search call issues at most Retries (3) vector-store queries and
\* at most Retries * Retries (9) embedding-provider calls, and raises only
\* on the last attempt of _logic; with a query that has text, by then every
\* attempt has ended in a failed store query or in an embedding whose
\* Retries requests all failed.
C40_NestedRetryBounds ==
    /\ Len(storeq) <= Retries
    /\ Len(provider) <= Retries * Retries
    /\ epc = "failed" => oAttempt = Retries
    /\ (epc = "failed" /\ NonBlank(texts[1])) =>
          /\ \A i \in 1..Len(storeq) : ~storeq[i].ok
          /\ Len(storeq) + Exhaustions(provider, 0) = Retries

C40_Witness ==
    /\ epc = "failed"
    /\ Len(provider) = Retries * Retries
    /\ storeq = <<>>

\* How a rebuild has ended: it ran to completion and returned the result of
\* the self-check, it stopped when a retried call failed on its last
\* attempt, or it stopped at the load (failed, or nothing loaded).
RanToCompletion == result \in {"true", "false"} /\ <<"query", 0>> \in done
RetryExhausted == result = "raised" /\ err \in {"embed", "upsert", "check"}
LoadStopped ==
    \/ result = "raised" /\ err = "load"
    \/ result = "false" /\ Loaded /\ docs = <<>>

\* C32 (as claimed): every rebuild eventually ends, and ends in exactly one
\* of the three outcomes (completion, retry exhaustion, load failure or
\* empty load).
C32_TerminatesInThreeOutcomes ==
    /\ <>(pc = "end")
    /\ [](pc = "end" =>
            /\ RanToCompletion \/ RetryExhausted \/ LoadStopped
            /\ ~(RanToCompletion /\ RetryExhausted)
            /\ ~(RanToCompletion /\ LoadStopped)
            /\ ~(RetryExhausted /\ LoadStopped))

\* Rebuild p has upserted batch b.
Upserted(p, b) == racePc[p] # "idle" /\ raceBatch[p] > b
\* Rebuild p has deleted the collection.
Deleted(p) == racePc[p] \notin {"idle", "delete"}

\* C31: nothing serializes two rebuilds of one collection. A rebuild alone
\* (the other not started) ends with true and leaves exactly its points;
\* with both at work, whatever does not go that way is the other's doing: a
\* point a rebuild has upserted is missing from the collection only after
\* the other's delete, and a rebuild ends with an exception or with false
\* only after the other has started.
C31_RebuildsAreNotSerialized ==
    \A p \in Rebuilds :
        /\ (racePc[p] = "end" /\ racePc[Other(p)] = "idle") =>
              /\ raceResult[p] = "true"
              /\ shared = [exists |-> TRUE,
                           points |-> { RacePoint(b, p) : b \in 1..raceDocs }]
        /\ \A b \in 1..raceDocs :
              (Upserted(p, b) /\ ~\E q \in shared.points : q.id = b) => Deleted(Other(p))
        /\ raceResult[p] \in {"raised", "false"} => racePc[Other(p)] # "idle"

C31_Witness ==
    /\ Upserted(1, 1)
    /\ racePc[2] = "upsert"
    /\ raceBatch[2] = 1
    /\ shared = [exists |-> TRUE, points |-> {}]

\* The stages a call has passed, and the links of a channel's product.
Passed(c, stage) == \E i \in 1..Len(alog[c]) : alog[c][i] = stage
LinksOfChannel(c) == { l \in alinks : l[1] = c }

C39_ChannelsDoNotInterfere ==
    \A c \in Channels :
        (/\ svcKind[c] = "named"
         /\ apc[c] = "end"
         /\ ~Passed(c, "index check raised")
         /\ ~Passed(c, "rolled back")) =>
            /\ aret[c] = "true"
            /\ LinksOfChannel(c) = { << c, Top(ServicesOf(c)) >> }

\* C34 (as claimed): the reminders delivered to a thread since its last
\* assistant reply never exceed reminder_limit, also when the metadata update
\* that records a delivered reminder fails.
C34_RemindersWithinLimit ==
    sinceReply <= reminder_limit

\* C35 (as claimed): of two reminders delivered to the thread by successive
\* checks the second is delivered at least cooldown_minutes after the first.
C35_CooldownBetweenReminders ==
    \A i \in 1..(Len(delivered) - 1) : delivered[i + 1] - delivered[i] >= cooldown_minutes

\* The conditions the claim names, on the metadata m a check read and the
\* check's time n.
Replied(m) == m.last_assistant_ts # NoTs
AssistantSpokeLast(m) == m.last_user_ts = NoTs \/ m.last_user_ts <= m.last_assistant_ts
TimedOut(m, n) == n - m.last_assistant_ts >= timeout_minutes
InDialog(m) == m.last_dialog_state \notin { "", "None", "new" }
Deliverable(m) == m.delivery_user_id # 0 /\ m.delivery_access_token # ""

====
